---- MODULE Spec2Model ----
(***************************************************************************)
(* AutoCommit: the hunk-grouping protocol, the parallel analysis phase and *)
(* the serialized commit phase (apply_commits) over one git repository.    *)
(*                                                                         *)
(* The specifications share the variables:                                 *)
(*   SpecCommit   apply_commits(repo, files_commit_data, files, ...)       *)
(*   SpecRun      process_files / _process_files_parallel                  *)
(*   SpecGroup    classify_hunks followed by _process_file_hunks' grouping *)
(***************************************************************************)
EXTENDS Integers, Sequences, FiniteSets, TLC

\* ---------------------------------------------------------------- bounds
NumFiles == 2
MaxHunks == 2
MaxLines == 2       \* lines of a classifier response
MaxNums == 2        \* numbers in a classifier response, over all its lines
MaxParallel == 2    \* config.parallel
MaxTest == 1        \* config.test_mode, when it is set
CpuCount == 1       \* os.cpu_count()

\* ---------------------------------------------------------------- values
None == "None"

Paths == 1..NumFiles
Hunks == 1..MaxHunks
\* a change unit: hunk h of the working-tree diff of path p; the unit 0 of a
\* path is a change of that path staged by the user before the run
PRE_STAGED == 0

MSG_OK == "feat: change"
MSG_AI_ERROR == "[Chore] Commit changes (AI Error)"
MSG_SYSTEM_ERROR == "[Chore] Commit changes (System Error)"
MSG_EMPTY == ""

HASH_UNAVAILABLE == "Success (hash unavailable)"

VARIABLES
    \* --- the repository (git_repository.py / the git process)
    index,                  \* units present in the index
    head,                   \* units present in HEAD
    \* --- apply_commits
    files_commit_data,      \* argument: per file None or a list of groups
    pc,                     \* position of the commit phase
    file_index,
    group_idx,              \* 1-based position in commit_groups
    needs_initial_reset,
    total_commits_made,
    committed_file_paths,
    record,                 \* <<file, group>> -> outcome shown for the group
    last_commit,            \* the commit git created last: its group and units
    last_cmd,               \* the repository-mutating command issued last
    attempts,               \* the groups a commit was attempted for, in order
    \* --- process_files / _process_files_parallel
    config,                 \* config.parallel, config.test_mode, config.push
    mpc,                    \* position of process_files (the main thread)
    started,                \* worker threads started so far
    joined,                 \* worker threads joined so far
    file_queue,             \* indices of the files still to analyse
    results,                \* per file: the analysis result, or None
    wpc,                    \* per worker thread: its position
    wfile,                  \* per worker thread: the file it popped
    wout,                   \* per worker thread: how its analysis ended
    analysed,               \* per file: how its own analysis ended (history)
    \* --- classify_hunks / _process_file_hunks (one multi-hunk file)
    num_hunks,              \* len(hunks)
    classifier,             \* what the classifier call does: raise, or a response
    gpc,                    \* position of the grouping
    classified,             \* the value classify_hunks returned
    hunk_groups,            \* the groups of hunk indices of _process_file_hunks
    commit_data_list,       \* the commit records _process_file_hunks returns
    \* --- split_diff_into_chunks (one call)
    diff,                   \* argument: the lines of the diff, by kind
    diff_ends_nl,           \* whether the diff text ends with a newline
    chunk_level,            \* argument
    spc,                    \* position of the call
    chunks,                 \* the list the call returns
    \* --- _create_patch_for_group and the record its caller appends (one group)
    has_header,             \* whether full_diff has header lines before its hunks
    hunk_texts,             \* the 'diff' text of each hunk of the file
    group_hunks,            \* argument: the hunks of the group, by position in the file
    ppc,                    \* position of the call
    full_patch,             \* the text _create_patch_for_group returns
    appended,               \* whether the caller appended a commit record
    \* --- _process_file_hunks (one file; its diff, level and chunks are above)
    file_status,            \* file["status"]
    file_is_binary,         \* file["is_binary"]
    fpc,                    \* position of the call
    drafts,                 \* how the message-drafting call ended, per group
    classify_calls,         \* how many times classify_hunks was called
    \* --- _generate_messages_parallel / generate_messages_parallel (one call)
    generator,              \* which of the two functions is called
    parallel_level,         \* argument
    chunk_outcomes,         \* per chunk: how generate_commit_message ends for it
    futures,                \* per chunk: the state of its future
    completed,              \* futures done and not yet yielded by as_completed
    messages,               \* the list being filled
    mgpc,                   \* position of the call
    \* --- the patch preprocessing of apply_commits (one patch)
    patch_content,          \* the patch of the group, as tokens
    processed_patch_content,\* the text written to the temporary file
    npc                     \* position of the preprocessing

repoVars == <<index, head>>

applyVars == <<files_commit_data, pc, file_index, group_idx,
               needs_initial_reset, total_commits_made, committed_file_paths,
               record, last_commit, last_cmd, attempts>>

runVars == <<config, mpc, started, joined, file_queue, results, wpc, wfile, wout,
             analysed>>

groupVars == <<num_hunks, classifier, gpc, classified, hunk_groups,
               commit_data_list>>

splitVars == <<diff, diff_ends_nl, chunk_level, spc, chunks>>

patchVars == <<has_header, hunk_texts, group_hunks, ppc, full_patch, appended>>

fileVars == <<file_status, file_is_binary, fpc, drafts, classify_calls>>

msgVars == <<generator, parallel_level, chunk_outcomes, futures, completed,
             messages, mgpc>>

normVars == <<patch_content, processed_patch_content, npc>>

pureVars == <<splitVars, patchVars, fileVars, msgVars, normVars>>

vars == <<repoVars, applyVars, runVars, groupVars, pureVars>>

\* ---------------------------------------------------------------- git
\* run_git_command: "error" is the stderr that remains, whatever the exit code
RunGitError(res) == IF res.stderr = "" THEN None ELSE res.stderr

\* git add <path>: every hunk of the working-tree diff of the path is staged
GitAdd(idx, p) == idx \cup {<<p, h>> : h \in Hunks}

\* git reset HEAD, without a path: the whole index goes back to HEAD
GitResetAll(idx, hd, p) == hd

\* git reset HEAD -- <path>
GitReset(idx, hd, p) == {u \in idx : u[1] # p} \cup {u \in hd : u[1] = p}

\* git apply --cached <patch of hunks hs of path p>
GitApply(idx, p, hs) == idx \cup {<<p, h>> : h \in hs}

\* outcomes of the git process, by command
AddOutcomes ==
    { [rc |-> 0, stderr |-> "", stdout |-> ""],
      [rc |-> 0, stderr |-> "other", stdout |-> ""],
      [rc |-> 1, stderr |-> "other", stdout |-> ""] }

ResetOutcomes == { [rc |-> 0, stderr |-> "", stdout |-> ""], [rc |-> 1, stderr |-> "other", stdout |-> ""] }

ApplyOutcomes(idx, p, hs) ==
    IF {<<p, h>> : h \in hs} \cap idx = {}
    THEN { [rc |-> 0, stderr |-> "", stdout |-> ""],
           [rc |-> 0, stderr |-> "other", stdout |-> ""],
           [rc |-> 0, stderr |-> "applied with offsets", stdout |-> ""],
           [rc |-> 1, stderr |-> "patch does not apply", stdout |-> ""],
           [rc |-> 1, stderr |-> "other", stdout |-> ""] }
    ELSE { [rc |-> 1, stderr |-> "patch does not apply", stdout |-> ""],
           [rc |-> 1, stderr |-> "already applied", stdout |-> ""],
           [rc |-> 1, stderr |-> "other", stdout |-> ""] }

\* git commit -m <message>: with nothing staged git refuses and says so, on
\* stdout (or on stderr)
CommitOutcomes(idx, hd) ==
    IF idx = hd
    THEN { [rc |-> 1, stderr |-> "", stdout |-> "nothing to commit"],
           [rc |-> 1, stderr |-> "nothing to commit", stdout |-> ""],
           [rc |-> 1, stderr |-> "no changes added to commit", stdout |-> ""] }
    ELSE { [rc |-> 0, stderr |-> "", stdout |-> ""],
           [rc |-> 0, stderr |-> "other", stdout |-> ""],
           [rc |-> 1, stderr |-> "other", stdout |-> ""] }

\* git rev-parse --short HEAD
RevParseOutcomes ==
    { [rc |-> 0, stderr |-> "", stdout |-> "hash"],
      [rc |-> 1, stderr |-> "other", stdout |-> ""] }

\* ---------------------------------------------------------------- commit data
\* the record _process_whole_file returns
WholeGroup(msg, err, st, bin) ==
    [message |-> msg, error |-> err, has_patch |-> (~bin /\ ~err), patch |-> Hunks,
     is_binary |-> bin, status |-> st, total_hunks_in_file |-> 1]

\* the record _process_file_hunks appends for a group of hunks
PatchGroup(msg, hs) ==
    [message |-> msg, error |-> FALSE, has_patch |-> TRUE, patch |-> hs,
     is_binary |-> FALSE, status |-> "", total_hunks_in_file |-> MaxHunks]

FileData(groups) == [none |-> FALSE, groups |-> groups]
NoFileData == [none |-> TRUE, groups |-> <<>>]

Rest == Hunks \ {1}

FileShapes ==
    { NoFileData,
      FileData(<<WholeGroup(MSG_OK, FALSE, "M", FALSE)>>),
      FileData(<<WholeGroup(MSG_AI_ERROR, TRUE, "M", FALSE)>>),
      FileData(<<PatchGroup(MSG_OK, Hunks)>>),
      FileData(<<PatchGroup(MSG_EMPTY, Hunks)>>),
      FileData(<<PatchGroup(MSG_OK, {1}), PatchGroup(MSG_OK, Rest)>>),
      FileData(<<PatchGroup(MSG_AI_ERROR, {1}), PatchGroup(MSG_OK, Rest)>>),
      FileData(<<PatchGroup(MSG_OK, {1}), PatchGroup(MSG_SYSTEM_ERROR, Rest)>>) }

Attempts == Paths \X (1..2)

\* config.test_mode: None, or the number of files to analyse
NoTestMode == [is_none |-> TRUE, val |-> 0]
TestMode(k) == [is_none |-> FALSE, val |-> k]

\* the worker threads _process_files_parallel can start: at most one per file
Workers == 1..NumFiles

\* ---------------------------------------------------------------- apply_commits
\* the argument files: file i of the input list has path i
files == [i \in 1..NumFiles |-> [path |-> i]]

commit_groups == files_commit_data[file_index].groups
group_data == commit_groups[group_idx]
\* the path of the first file of the list, whatever file is being processed
pathOfFirstFile == files[1].path

\* path = original_file_info["path"], with original_file_info = files[file_index]
path == files[file_index].path
panel_key == <<file_index, group_idx>>

\* a validation that lets the "(System Error)" placeholder through
InvalidGroupNoSystemError(g) ==
    \/ g.message = MSG_EMPTY
    \/ g.message = MSG_AI_ERROR
    \/ g.error

\* the group validation of apply_commits
InvalidGroup(g) ==
    \/ g.message = MSG_EMPTY
    \/ g.message = MSG_AI_ERROR
    \/ g.message = MSG_SYSTEM_ERROR
    \/ g.error

StartsWithD(st) == st \in {"D", "DD", "D "}

\* is_binary or status.startswith("D") or status == "??" or is_whole_file_commit
WholeFileCommit(g) ==
    \/ g.is_binary
    \/ StartsWithD(g.status)
    \/ g.status = "??"
    \/ g.total_hunks_in_file = 1

\* the classification of apply_result["error"]: TRUE when no exception is raised
ApplyProceeds(error) ==
    \/ error = None
    \/ error = "patch does not apply"
    \/ error = "applied with offsets"
    \/ error = "already applied"

\* GitRepository.commit: what it returns ("raise" for GitRepositoryError)
CommitReturn(res, rev) ==
    IF RunGitError(res) # None
    THEN IF RunGitError(res) \in {"nothing to commit", "no changes added to commit"}
         THEN None
         ELSE "raise"
    ELSE IF RunGitError(rev) # None THEN HASH_UNAVAILABLE ELSE "hash"

NoCmd == [cmd |-> "none", file |-> 0, group |-> 0, path |-> 0, rc |-> 0,
          stderr |-> "", stdout |-> ""]
NoCommit == [file |-> 0, group |-> 0, units |-> {}]

Issue(cmd, res) ==
    last_cmd' = [cmd |-> cmd, file |-> file_index, group |-> group_idx,
                 path |-> path, rc |-> res.rc, stderr |-> res.stderr,
                 stdout |-> res.stdout]

\* a failure handling that starts the file over instead of leaving it
BreakRetry ==
    /\ record' = [record EXCEPT ![panel_key] = "failed"]
    /\ pc' = "file"
    /\ file_index' = file_index
    /\ group_idx' = 1

\* except GitRepositoryError: ... break
Break ==
    /\ record' = [record EXCEPT ![panel_key] = "failed"]
    /\ pc' = "file"
    /\ file_index' = file_index + 1
    /\ group_idx' = 1

\* the end of one iteration of the inner loop
NextGroup ==
    /\ pc' = "group"
    /\ group_idx' = group_idx + 1
    /\ UNCHANGED file_index

InitRepo ==
    /\ head = {}
    /\ index \in {{}, {<<1, PRE_STAGED>>}}

IdleApply ==
    /\ files_commit_data = [p \in Paths |-> NoFileData]
    /\ pc = "idle"
    /\ file_index = 1
    /\ group_idx = 1
    /\ needs_initial_reset = TRUE
    /\ total_commits_made = 0
    /\ committed_file_paths = {}
    /\ record = [a \in Attempts |-> "pending"]
    /\ last_commit = NoCommit
    /\ last_cmd = NoCmd
    /\ attempts = <<>>

IdleRun ==
    /\ config = [parallel |-> 0, test_mode |-> NoTestMode, push |-> FALSE]
    /\ mpc = "idle"
    /\ started = 0
    /\ joined = 0
    /\ file_queue = <<>>
    /\ results = <<>>
    /\ wpc = [w \in Workers |-> "new"]
    /\ wfile = [w \in Workers |-> 0]
    /\ wout = [w \in Workers |-> "none"]
    /\ analysed = [i \in Paths |-> "pending"]

IdleGroup ==
    /\ num_hunks = 0
    /\ classifier = [raises |-> TRUE, response |-> <<>>]
    /\ gpc = "idle"
    /\ classified = <<>>
    /\ hunk_groups = <<>>
    /\ commit_data_list = <<>>

IdleSplit ==
    /\ diff = <<>>
    /\ diff_ends_nl = FALSE
    /\ chunk_level = 0
    /\ spc = "idle"
    /\ chunks = <<>>

IdlePatch ==
    /\ has_header = FALSE
    /\ hunk_texts = <<>>
    /\ group_hunks = <<>>
    /\ ppc = "idle"
    /\ full_patch = <<>>
    /\ appended = FALSE

IdleFile ==
    /\ file_status = "M"
    /\ file_is_binary = FALSE
    /\ fpc = "idle"
    /\ drafts = <<>>
    /\ classify_calls = 0

IdleNorm ==
    /\ patch_content = <<>>
    /\ processed_patch_content = <<>>
    /\ npc = "idle"

IdleMsg ==
    /\ generator = "processor"
    /\ parallel_level = 0
    /\ chunk_outcomes = <<>>
    /\ futures = <<>>
    /\ completed = <<>>
    /\ messages = <<>>
    /\ mgpc = "idle"

InitCommit ==
    /\ InitRepo
    /\ IdleRun
    /\ IdleGroup
    /\ IdleSplit
    /\ IdlePatch
    /\ IdleFile
    /\ IdleMsg
    /\ IdleNorm
    /\ files_commit_data \in [Paths -> FileShapes]
    /\ pc = "file"
    /\ file_index = 1
    /\ group_idx = 1
    /\ needs_initial_reset = TRUE
    /\ total_commits_made = 0
    /\ committed_file_paths = {}
    /\ record = [a \in Attempts |-> "pending"]
    /\ last_commit = NoCommit
    /\ last_cmd = NoCmd
    /\ attempts = <<>>

\* for file_index, commit_groups in enumerate(files_commit_data)
EnterFile ==
    /\ UNCHANGED <<runVars, groupVars, pureVars, attempts>>
    /\ pc = "file"
    /\ file_index <= NumFiles
    /\ IF files_commit_data[file_index].none
       THEN /\ file_index' = file_index + 1
            /\ UNCHANGED <<pc, group_idx, needs_initial_reset>>
       ELSE /\ pc' = "group"
            /\ group_idx' = 1
            /\ needs_initial_reset' = TRUE
            /\ UNCHANGED file_index
    /\ UNCHANGED <<index, head, files_commit_data, total_commits_made,
                   committed_file_paths, record, last_commit, last_cmd>>

Return ==
    /\ UNCHANGED <<runVars, groupVars, pureVars, attempts>>
    /\ pc = "file"
    /\ file_index > NumFiles
    /\ pc' = "return"
    /\ UNCHANGED <<index, head, files_commit_data, file_index, group_idx,
                   needs_initial_reset, total_commits_made, committed_file_paths,
                   record, last_commit, last_cmd>>

\* for group_index_zero_based, group_data in enumerate(commit_groups): validation
ValidateGroup ==
    /\ UNCHANGED <<runVars, groupVars, pureVars, attempts>>
    /\ pc = "group"
    /\ IF group_idx > Len(commit_groups)
       THEN /\ pc' = "file"
            /\ file_index' = file_index + 1
            /\ UNCHANGED <<group_idx, record>>
       ELSE IF InvalidGroup(group_data)
       THEN /\ record' = [record EXCEPT ![panel_key] = "skipped_invalid"]
            /\ NextGroup
       ELSE /\ pc' = "stage"
            /\ UNCHANGED <<file_index, group_idx, record>>
    /\ UNCHANGED <<index, head, files_commit_data, needs_initial_reset,
                   total_commits_made, committed_file_paths, last_commit, last_cmd>>

\* the else branch of the outcome handling, for a group without a commit
SkipTail(reason) ==
    /\ record' = [record EXCEPT ![panel_key] = reason]
    /\ IF ~needs_initial_reset /\ ~WholeFileCommit(group_data)
       THEN /\ pc' = "skip_reset"
            /\ UNCHANGED <<file_index, group_idx>>
       ELSE NextGroup

\* staging logic: git add of the whole file, or the reset before the first patch
StageOrPatch ==
    /\ UNCHANGED <<runVars, groupVars, pureVars, attempts>>
    /\ pc = "stage"
    /\ IF WholeFileCommit(group_data)
       THEN IF needs_initial_reset
            THEN \E res \in AddOutcomes :
                   /\ index' = IF res.rc = 0 THEN GitAdd(index, path) ELSE index
                   /\ Issue("add", res)
                   /\ IF RunGitError(res) # None
                      THEN Break /\ UNCHANGED needs_initial_reset
                      ELSE /\ needs_initial_reset' = FALSE
                           /\ pc' = "commit"
                           /\ UNCHANGED <<file_index, group_idx, record>>
            ELSE /\ pc' = "commit"
                 /\ UNCHANGED <<index, last_cmd, needs_initial_reset, file_index,
                                group_idx, record>>
       ELSE IF ~group_data.has_patch
       THEN /\ UNCHANGED <<index, last_cmd, needs_initial_reset>>
            /\ SkipTail("skipped_failed")
       ELSE IF needs_initial_reset
            THEN \E res \in ResetOutcomes :
                   /\ index' = IF res.rc = 0 THEN GitReset(index, head, path)
                               ELSE index
                   /\ Issue("reset", res)
                   /\ needs_initial_reset' = FALSE
                   /\ pc' = "apply"
                   /\ UNCHANGED <<file_index, group_idx, record>>
            ELSE /\ pc' = "apply"
                 /\ UNCHANGED <<index, last_cmd, needs_initial_reset, file_index,
                                group_idx, record>>
    /\ UNCHANGED <<head, files_commit_data, total_commits_made,
                   committed_file_paths, last_commit>>

\* git apply --cached --ignore-whitespace --recount --verbose -- <temp file>
ApplyPatch ==
    /\ UNCHANGED <<runVars, groupVars, pureVars, attempts>>
    /\ pc = "apply"
    /\ \E res \in ApplyOutcomes(index, path, group_data.patch) :
         /\ index' = IF res.rc = 0 THEN GitApply(index, path, group_data.patch)
                     ELSE index
         /\ Issue("apply", res)
         /\ IF ApplyProceeds(RunGitError(res))
            THEN /\ pc' = "commit"
                 /\ UNCHANGED <<file_index, group_idx, record>>
            ELSE Break
    /\ UNCHANGED <<head, files_commit_data, needs_initial_reset,
                   total_commits_made, committed_file_paths, last_commit>>

\* repo.commit(group_message) and the handling of its outcome
CommitAttempt ==
    /\ UNCHANGED <<runVars, groupVars, pureVars>>
    /\ pc = "commit"
    /\ \E res \in CommitOutcomes(index, head) :
       \E rev \in IF RunGitError(res) = None THEN RevParseOutcomes
                  ELSE {[rc |-> 0, stderr |-> "", stdout |-> "hash"]} :
         /\ head' = IF res.rc = 0 THEN index ELSE head
         /\ last_commit' = IF res.rc = 0
                           THEN [file |-> file_index, group |-> group_idx,
                                 units |-> index \ head]
                           ELSE last_commit
         /\ Issue("commit", res)
         /\ attempts' = Append(attempts, panel_key)
         /\ LET commit_hash == CommitReturn(res, rev) IN
            IF commit_hash = "raise"
            THEN Break /\ UNCHANGED <<total_commits_made, committed_file_paths>>
            ELSE IF commit_hash = None
            THEN /\ SkipTail("nothing_to_commit")
                 /\ UNCHANGED <<total_commits_made, committed_file_paths>>
            ELSE /\ total_commits_made' = total_commits_made + 1
                 /\ committed_file_paths' = committed_file_paths \cup {path}
                 /\ record' = [record EXCEPT ![panel_key] = "committed"]
                 /\ IF ~WholeFileCommit(group_data)
                    THEN /\ pc' = "post_reset"
                         /\ UNCHANGED <<file_index, group_idx>>
                    ELSE NextGroup
    /\ UNCHANGED <<index, files_commit_data, needs_initial_reset>>

\* a commit phase that goes to the next group without the reset
PostCommitNoReset ==
    /\ UNCHANGED <<runVars, groupVars, pureVars, attempts>>
    /\ pc = "post_reset"
    /\ NextGroup
    /\ UNCHANGED <<index, last_cmd, head, files_commit_data, needs_initial_reset,
                   total_commits_made, committed_file_paths, record, last_commit>>

\* git reset HEAD -- path after a successful commit of a patch-based group
PostCommitReset ==
    /\ UNCHANGED <<runVars, groupVars, pureVars, attempts>>
    /\ pc = "post_reset"
    /\ \E res \in ResetOutcomes :
         /\ index' = IF res.rc = 0 THEN GitReset(index, head, path) ELSE index
         /\ Issue("reset", res)
    /\ NextGroup
    /\ UNCHANGED <<head, files_commit_data, needs_initial_reset,
                   total_commits_made, committed_file_paths, record, last_commit>>

\* git reset HEAD -- path after a skipped commit of a patch-based group
SkipReset ==
    /\ UNCHANGED <<runVars, groupVars, pureVars, attempts>>
    /\ pc = "skip_reset"
    /\ \E res \in ResetOutcomes :
         /\ index' = IF res.rc = 0 THEN GitReset(index, head, path) ELSE index
         /\ Issue("reset", res)
    /\ NextGroup
    /\ UNCHANGED <<head, files_commit_data, needs_initial_reset,
                   total_commits_made, committed_file_paths, record, last_commit>>

NextCommit ==
    \/ EnterFile
    \/ Return
    \/ ValidateGroup
    \/ StageOrPatch
    \/ ApplyPatch
    \/ CommitAttempt
    \/ PostCommitReset
    \/ SkipReset

SpecCommit == InitCommit /\ [][NextCommit]_vars

\* ---------------------------------------------------------------- commit phase: properties
\* (file, group) positions in the order of the two nested loops
Before(a, b) == a[1] < b[1] \/ (a[1] = b[1] /\ a[2] < b[2])
NotAfter(a, b) == a = b \/ Before(a, b)

HasGroup(a) ==
    /\ ~files_commit_data[a[1]].none
    /\ a[2] <= Len(files_commit_data[a[1]].groups)
GroupAt(a) == files_commit_data[a[1]].groups[a[2]]
TwoGroups(f) == ~files_commit_data[f].none /\ Len(files_commit_data[f].groups) = 2

\* the units a group stands for: the hunks of its patch, in its file
OwnUnits(a) == {<<files[a[1]].path, h>> : h \in GroupAt(a).patch}

CmdPos(c) == <<c.file, c.group>>

\* C1: the repository-mutating commands are issued one at a time by the loop of
\* apply_commits, group after group: a command issued after another belongs to
\* the same group or to a later one (so the stage/reset, apply, commit, reset
\* sequence of a group is never interleaved with a command of another group or
\* file), and every git add / git reset names the path of the file whose group
\* is in progress.
C1_OneSequenceInFlight ==
    [][last_cmd' # last_cmd =>
          /\ NotAfter(CmdPos(last_cmd), CmdPos(last_cmd'))
          /\ CmdPos(last_cmd') = <<file_index, group_idx>>
          /\ last_cmd'.cmd \in {"add", "reset"} =>
                last_cmd'.path = files[last_cmd'.file].path]_vars

\* C1 happens: the second file's group is being applied after a commit of the
\* first file went through its whole sequence
C1_Witness ==
    /\ last_cmd.cmd = "apply"
    /\ last_cmd.file = 2
    /\ last_commit.file = 1
    /\ record[<<1, 1>>] = "committed"

\* C3: the commit attempts are strictly increasing in (input file index, group
\* ordinal): files in the order of the input list, the groups of a file in
\* group order.
C3_AttemptsIncreasing ==
    \A i, j \in 1..Len(attempts) : i < j => Before(attempts[i], attempts[j])

\* C3 happens: both groups of the first file and a group of the second file
\* had a commit attempted
C3_Witness ==
    /\ Len(attempts) >= 3
    /\ attempts[1] = <<1, 1>>
    /\ attempts[2] = <<1, 2>>
    /\ attempts[3][1] = 2

\* C4: over the two groups of one file the pipeline makes commits that hold
\* only the changes of their own group (nothing of the other group, of another
\* file, or staged beforehand), and once the first group is committed the index
\* holds no staged content when the second group starts.
C4_OwnChangesOnly ==
    /\ (last_commit.file # 0 /\ TwoGroups(last_commit.file)) =>
          last_commit.units = OwnUnits(<<last_commit.file, last_commit.group>>)
    /\ (pc = "group" /\ group_idx = 2 /\ TwoGroups(file_index)
          /\ record[<<file_index, 1>>] = "committed") => index = head

\* C5: a failed group of file A leaves nothing staged for A that a commit made
\* for a file processed later picks up, and every group of every file without a
\* failure is still attempted.
C5_FailureContained ==
    /\ \A u \in last_commit.units :
          u[2] # PRE_STAGED => u[1] = files[last_commit.file].path
    /\ pc = "return" =>
          \A a \in Attempts :
              (HasGroup(a) /\ \A g \in 1..2 : record[<<a[1], g>>] # "failed")
                  => record[a] # "pending"

\* C6: a group whose patch git refuses with "patch does not apply" is failed and
\* no commit is attempted for it.
C6_ConflictFails ==
    (last_cmd.cmd = "apply" /\ last_cmd.stderr = "patch does not apply") =>
        /\ pc # "commit"
        /\ record[CmdPos(last_cmd)] = "failed"

\* git reported that there was nothing to commit
NothingReported(c) ==
    \/ c.stdout = "nothing to commit"
    \/ c.stderr \in {"nothing to commit", "no changes added to commit"}

\* C7: a git commit that ends non-zero is never shown or counted as a commit
\* made: the group is skipped when git reported nothing to commit and failed
\* for every other non-zero outcome.
C7_NonZeroCommitNotCounted ==
    (last_cmd.cmd = "commit" /\ last_cmd.rc # 0) =>
        record[CmdPos(last_cmd)] =
            IF NothingReported(last_cmd) THEN "nothing_to_commit" ELSE "failed"

\* a group the analysis flagged: no message, a placeholder message, or an error
Flagged(g) ==
    \/ g.message \in {MSG_EMPTY, MSG_AI_ERROR, MSG_SYSTEM_ERROR}
    \/ g.error

\* C8: a group with a missing message, the "(AI Error)" or "(System Error)"
\* placeholder, or the error flag is always skipped: no git command is issued
\* for it, no commit is attempted for it, and its changes are never staged.
C8_FlaggedNeverProcessed ==
    \A a \in Attempts :
        (HasGroup(a) /\ Flagged(GroupAt(a))) =>
            /\ record[a] \in {"pending", "skipped_invalid"}
            /\ CmdPos(last_cmd) # a
            /\ \A k \in 1..Len(attempts) : attempts[k] # a
            /\ OwnUnits(a) \cap index = {}

\* C8 happens: a flagged group was skipped and the group after it, of the same
\* file, was committed
C8_Witness ==
    \E f \in Paths :
        /\ TwoGroups(f)
        /\ Flagged(GroupAt(<<f, 1>>))
        /\ record[<<f, 1>>] = "skipped_invalid"
        /\ record[<<f, 2>>] = "committed"

\* ---------------------------------------------------------------- grouping
\* Python values that the grouping code passes around: a hunk dictionary of the
\* file (by its 0-based position) or an int
HunkDict(i) == [tag |-> "dict", val |-> i]
PyInt(i) == [tag |-> "int", val |-> i]

HunkList(n) == [k \in 1..n |-> HunkDict(k - 1)]

\* list(range(len(hunks)))
RangeList(n) == [k \in 1..n |-> k - 1]

\* hunks[idx] with Python's negative indexing
PyIndex(hunks, idx) ==
    IF idx >= 0 THEN hunks[idx + 1] ELSE hunks[Len(hunks) + idx + 1]

\* A response is a sequence of lines.  kind "numbered" is a line "GROUP <k>: ..."
\* (what re.split(r"GROUP \d+:") cuts at); kind "plain" is a line "GROUP: ...";
\* kind "text" is any other line.  bracket says whether the line holds "[...]" and nums are
\* the numbers re.findall(r"\d+") finds inside it.
LineKinds == {"numbered", "plain", "text"}

LinesWith(n, j) ==
    { [kind |-> kd, bracket |-> b, nums |-> ns] :
        kd \in LineKinds,
        b \in (IF j = 0 THEN BOOLEAN ELSE {TRUE}),
        ns \in [1..j -> 0..(n + 1)] }

RECURSIVE SumNums(_, _)
SumNums(resp, i) ==
    IF i > Len(resp) THEN 0 ELSE Len(resp[i].nums) + SumNums(resp, i + 1)

SetMin(S) == CHOOSE x \in S : \A y \in S : x <= y

\* the section that the header at line i opens ends before the next header
SectionEnd(resp, i) ==
    LET later == {j \in (i + 1)..Len(resp) : resp[j].kind = "numbered"}
    IN  IF later = {} THEN Len(resp) ELSE SetMin(later) - 1

\* hunk_match = re.search(r"\[(.*?)\]", section)
HunkMatch(resp, i) ==
    LET js == {j \in i..SectionEnd(resp, i) : resp[j].bracket}
    IN  IF js = {} THEN [found |-> FALSE, nums |-> <<>>]
        ELSE [found |-> TRUE, nums |-> resp[SetMin(js)].nums]

\* for idx in hunk_indices: if idx < len(hunks) and idx not in processed: ...
RECURSIVE ClassifyGroup(_, _, _, _, _)
ClassifyGroup(nums, k, hunks, processed, group) ==
    IF k > Len(nums) THEN [processed |-> processed, group |-> group]
    ELSE LET idx == nums[k] - 1 IN
         IF idx < Len(hunks) /\ idx \notin processed
         THEN ClassifyGroup(nums, k + 1, hunks, processed \cup {idx},
                            Append(group, PyIndex(hunks, idx)))
         ELSE ClassifyGroup(nums, k + 1, hunks, processed, group)

\* for i, section in enumerate(group_sections[1:], 1): ...
RECURSIVE ClassifySections(_, _, _, _, _)
ClassifySections(resp, i, hunks, processed, groups) ==
    IF i > Len(resp) THEN groups
    ELSE IF resp[i].kind = "numbered" /\ HunkMatch(resp, i).found
    THEN LET r == ClassifyGroup(HunkMatch(resp, i).nums, 1, hunks, processed, <<>>)
         IN  ClassifySections(resp, i + 1, hunks, r.processed,
                              IF r.group # <<>> THEN Append(groups, r.group)
                              ELSE groups)
    ELSE ClassifySections(resp, i + 1, hunks, processed, groups)

\* classify_hunks: the value it returns for a response text
ClassifyHunks(resp, n) ==
    LET hunks == HunkList(n)
        parsed == ClassifySections(resp, 1, hunks, {}, <<>>)
        g1 == IF parsed = <<>> /\ n > 0 THEN <<hunks>> ELSE parsed
        \* processed_hunk_indices = set() just before the remaining hunks are taken
        reset == {}
        remaining == SelectSeq(hunks, LAMBDA h : h.val \notin reset)
        g2 == IF remaining # <<>> THEN Append(g1, remaining) ELSE g1
    IN  IF g2 = <<>> THEN <<hunks>> ELSE g2

\* a fallback after a failed call that puts every hunk in a group of its own
OpenAIErrorFallbackPerHunk(n) == [k \in 1..n |-> <<k - 1>>]

\* except OpenAIError: hunk_groups = [{"hunks": hunks, "indices": list(range(len(hunks)))}]
OpenAIErrorFallback(n) == <<RangeList(n)>>

\* a fallback that leaves the last hunk out: list(range(len(hunks) - 1))
ExceptionFallbackShort(n) == <<RangeList(n - 1)>>

\* a fallback that puts every hunk in a group of its own
ExceptionFallbackPerHunk(n) == [k \in 1..n |-> <<k - 1>>]

\* except Exception: hunk_groups = [{"hunks": hunks, "indices": list(range(len(hunks)))}]
ExceptionFallback(n) == <<RangeList(n)>>

\* if not hunk_groups: hunk_groups = [{"hunks": hunks, "indices": list(range(len(hunks)))}]
EmptyFallback(n) == <<RangeList(n)>>

\* 0 <= idx < len(hunks) raises TypeError unless idx is a number
RECURSIVE ConvertGroup(_, _, _, _, _)
ConvertGroup(group_indices, k, n, processed, current) ==
    IF k > Len(group_indices)
    THEN [raised |-> FALSE, processed |-> processed, indices |-> current]
    ELSE LET idx == group_indices[k] IN
         IF idx.tag # "int"
         THEN [raised |-> TRUE, processed |-> processed, indices |-> current]
         ELSE IF 0 <= idx.val /\ idx.val < n /\ idx.val \notin processed
         THEN ConvertGroup(group_indices, k + 1, n, processed \cup {idx.val},
                           Append(current, idx.val))
         ELSE ConvertGroup(group_indices, k + 1, n, processed, current)

\* for group_indices in hunk_groups_indices: ...
RECURSIVE ConvertGroups(_, _, _, _, _)
ConvertGroups(hunk_groups_indices, g, n, processed, groups) ==
    IF g > Len(hunk_groups_indices)
    THEN [raised |-> FALSE, processed |-> processed, groups |-> groups]
    ELSE LET r == ConvertGroup(hunk_groups_indices[g], 1, n, processed, <<>>) IN
         IF r.raised
         THEN [raised |-> TRUE, processed |-> r.processed, groups |-> groups]
         ELSE ConvertGroups(hunk_groups_indices, g + 1, n, r.processed,
                            IF r.indices # <<>> THEN Append(groups, r.indices)
                            ELSE groups)

\* _process_file_hunks: the groups of hunk indices it ends up with, for a
\* classifier call that raises (raises) or returns hunk_groups_indices
GroupHunks(raises, hunk_groups_indices, n) ==
    LET r == ConvertGroups(hunk_groups_indices, 1, n, {}, <<>>)
        remaining_indices == SelectSeq(RangeList(n), LAMBDA i : i \notin r.processed)
        tried == IF raises THEN OpenAIErrorFallback(n)
                 ELSE IF r.raised THEN ExceptionFallback(n)
                 ELSE IF remaining_indices # <<>>
                      THEN Append(r.groups, remaining_indices)
                      ELSE r.groups
    IN  IF tried = <<>> THEN EmptyFallback(n) ELSE tried

IdleRepo ==
    /\ head = {}
    /\ index = {}

GroupSizes == 2..(MaxHunks + 1)

InitGroup ==
    /\ IdleRepo
    /\ IdleApply
    /\ IdleRun
    /\ IdleSplit
    /\ IdlePatch
    /\ IdleFile
    /\ IdleMsg
    /\ IdleNorm
    /\ num_hunks \in GroupSizes
    /\ classifier \in [raises : BOOLEAN, response : {<<>>}]
    /\ gpc = "classify"
    /\ classified = <<>>
    /\ hunk_groups = <<>>
    /\ commit_data_list = <<>>

\* the classifier writes one more line of its response (client.chat.completions.create)
ClassifierLine ==
    /\ gpc = "classify"
    /\ ~classifier.raises
    /\ Len(classifier.response) < MaxLines
    /\ \E j \in 0..(MaxNums - SumNums(classifier.response, 1)) :
       \E l \in LinesWith(num_hunks, j) :
         classifier' = [classifier EXCEPT !.response = Append(@, l)]
    /\ UNCHANGED <<repoVars, applyVars, runVars, pureVars, num_hunks, gpc, classified,
                   hunk_groups, commit_data_list>>

\* hunk_groups_indices = classify_hunks(hunks, config.model, config.debug)
ClassifyCall ==
    /\ gpc = "classify"
    /\ classified' = IF classifier.raises THEN <<>>
                     ELSE ClassifyHunks(classifier.response, num_hunks)
    /\ gpc' = "group"
    /\ UNCHANGED <<repoVars, applyVars, runVars, pureVars, num_hunks, classifier, hunk_groups,
                   commit_data_list>>

\* the conversion of the classification into hunk_groups, with its fallbacks
GroupStep ==
    /\ gpc = "group"
    /\ hunk_groups' = GroupHunks(classifier.raises, classified, num_hunks)
    /\ gpc' = "grouped"
    /\ UNCHANGED <<repoVars, applyVars, runVars, pureVars, num_hunks, classifier, classified,
                   commit_data_list>>

\* the record appended for group i: its patch is the file's header followed by
\* the group's hunks in the order of the group
GroupRecord(groups, i, n) ==
    [group_index |-> i,
     total_groups |-> Len(groups),
     hunk_indices |-> groups[i],
     message |-> MSG_OK,
     patch_content |-> [header |-> TRUE, body |-> groups[i]],
     num_hunks_in_group |-> Len(groups[i]),
     total_hunks_in_file |-> n]

\* for i, group_info in enumerate(hunk_groups, 1): ... commit_data_list.append
CommitDataList(groups, n) == [i \in 1..Len(groups) |-> GroupRecord(groups, i, n)]

\* the messages and patches of the groups; return commit_data_list
BuildRecords ==
    /\ gpc = "grouped"
    /\ commit_data_list' = CommitDataList(hunk_groups, num_hunks)
    /\ gpc' = "returned"
    /\ UNCHANGED <<repoVars, applyVars, runVars, pureVars, num_hunks, classifier, classified,
                   hunk_groups>>

NextGroupSpec ==
    \/ ClassifierLine
    \/ ClassifyCall
    \/ GroupStep
    \/ BuildRecords

SpecGroup == InitGroup /\ [][NextGroupSpec]_vars

\* the hunk indices of the groups, one group after the other
RECURSIVE Flatten(_)
Flatten(groups) ==
    IF groups = <<>> THEN <<>> ELSE Head(groups) \o Flatten(Tail(groups))

\* the response holds a number that names no hunk of the file
OutOfRange(resp) ==
    \E i \in 1..Len(resp) : \E k \in 1..Len(resp[i].nums) :
        resp[i].nums[k] = 0 \/ resp[i].nums[k] > num_hunks

\* no line of the response is a GROUP line that carries a bracketed list
ZeroParseable(resp) ==
    \A i \in 1..Len(resp) : ~(resp[i].kind # "text" /\ resp[i].bracket)

\* C9: for a file of N hunks and any classifier response (duplicate indices,
\* out-of-range indices, missing hunks, no GROUP line, a failing call), once the
\* grouping of _process_file_hunks is done every hunk index 0..N-1 is in exactly
\* one group and no group holds anything else.
C9_GroupingTotal ==
    gpc = "grouped" =>
        LET all == Flatten(hunk_groups) IN
        /\ Len(all) = num_hunks
        /\ \A i \in 0..(num_hunks - 1) :
              Cardinality({k \in 1..Len(all) : all[k] = i}) = 1

\* C9 happens: a response with a numbered GROUP line whose list has an
\* out-of-range number was grouped
C9_Witness ==
    /\ gpc = "grouped"
    /\ ~classifier.raises
    /\ OutOfRange(classifier.response)
    /\ \E i \in 1..Len(classifier.response) :
          /\ classifier.response[i].kind = "numbered"
          /\ classifier.response[i].bracket
          /\ Len(classifier.response[i].nums) > 0

\* C10: when the classifier's response holds no parseable GROUP line, the
\* grouping is exactly one group that holds all N hunks in their original order.
C10_NoGroupLineOneGroup ==
    (gpc = "grouped" /\ ~classifier.raises /\ ZeroParseable(classifier.response)) =>
        /\ Len(hunk_groups) = 1
        /\ hunk_groups[1] = [k \in 1..num_hunks |-> k - 1]

\* C10 happens: a response of text lines only, with numbers in it, was grouped
C10_Witness ==
    /\ gpc = "grouped"
    /\ ~classifier.raises
    /\ Len(classifier.response) > 0
    /\ SumNums(classifier.response, 1) > 0
    /\ ZeroParseable(classifier.response)
    /\ Len(hunk_groups) = 1

\* every line of the response is "GROUP: [numbers]", each number names a hunk
\* of the file and no hunk is named twice
CleanGroupLines(resp) ==
    /\ Len(resp) > 0
    /\ \A i \in 1..Len(resp) :
          /\ resp[i].kind = "plain"
          /\ resp[i].bracket
          /\ Len(resp[i].nums) > 0
          /\ \A k \in 1..Len(resp[i].nums) : resp[i].nums[k] \in 1..num_hunks
    /\ \A i, j \in 1..Len(resp) :
       \A k \in 1..Len(resp[i].nums) : \A l \in 1..Len(resp[j].nums) :
          <<i, k>> # <<j, l>> => resp[i].nums[k] # resp[j].nums[l]

\* the groups the response lines define: line by line, the listed numbers as
\* 0-based indices, then the hunks no line names, in original order
GroupsOfLines(resp, n) ==
    LET listed == [i \in 1..Len(resp) |->
                      [k \in 1..Len(resp[i].nums) |-> resp[i].nums[k] - 1]]
        residual == SelectSeq([k \in 1..n |-> k - 1],
                              LAMBDA x : \A i \in 1..Len(listed) :
                                         \A k \in 1..Len(listed[i]) : listed[i][k] # x)
    IN  IF residual = <<>> THEN listed ELSE Append(listed, residual)

\* C11: every response line "GROUP: [numbers]" defines one group holding the
\* listed 1-based hunk numbers as 0-based indices, and the hunks no line claims
\* form one trailing group in original order (for 4 hunks, "GROUP: [1,3]" and
\* "GROUP: [2]" give {0,2}, {1}, {3}).
C11_GroupLinesDefineGroups ==
    (gpc = "grouped" /\ ~classifier.raises /\ CleanGroupLines(classifier.response)) =>
        hunk_groups = GroupsOfLines(classifier.response, num_hunks)

\* every line of the response is "GROUP <k>: [numbers]"
AllNumbered(resp) ==
    /\ Len(resp) > 0
    /\ \A i \in 1..Len(resp) : resp[i].kind = "numbered" /\ resp[i].bracket

\* the numbers of the response that name a hunk of the file
InRangeNums(resp) ==
    {x \in 1..num_hunks :
        \E i \in 1..Len(resp) : \E k \in 1..Len(resp[i].nums) : resp[i].nums[k] = x}

\* C12: a number of a GROUP line that is outside 1..N, or that an earlier
\* group claimed, is dropped: it selects no hunk, so every hunk in a group that
\* classify_hunks builds from the response's lines was named by a number in
\* 1..N.
C12_InvalidNumbersDropped ==
    (gpc \in {"group", "grouped", "returned"} /\ ~classifier.raises
        /\ AllNumbered(classifier.response)
        /\ InRangeNums(classifier.response) # {}) =>
        \A g \in 1..(Len(classified) - 1) : \A k \in 1..Len(classified[g]) :
            classified[g][k].val + 1 \in InRangeNums(classifier.response)

\* the response "GROUP 1: [1, ..., n]": one group with all hunks
OneGroupResponse(n) ==
    <<[kind |-> "numbered", bracket |-> TRUE, nums |-> [k \in 1..n |-> k]]>>

\* C13: when the classifier call raises, _process_file_hunks ends with a single
\* group holding every hunk in original order, and the commit records it
\* returns are those it returns when the classifier answers with one group of
\* all hunks.
C13_RaiseDegradesToOneGroup ==
    (gpc = "returned" /\ classifier.raises) =>
        /\ hunk_groups = <<[k \in 1..num_hunks |-> k - 1]>>
        /\ commit_data_list =
              CommitDataList(GroupHunks(FALSE,
                                        ClassifyHunks(OneGroupResponse(num_hunks),
                                                      num_hunks),
                                        num_hunks),
                             num_hunks)

\* C13 happens: the call raised and one record for all hunks was returned
C13_Witness ==
    /\ gpc = "returned"
    /\ classifier.raises
    /\ Len(commit_data_list) = 1
    /\ commit_data_list[1].num_hunks_in_group = num_hunks

\* the last command was the reset after a successful commit, and it failed
PostCommitResetFailed ==
    /\ last_cmd.cmd = "reset"
    /\ last_cmd.rc # 0
    /\ record[<<last_cmd.file, last_cmd.group>>] = "committed"

\* C29: when the index reset that follows a successful commit of a patch-based
\* group fails, the remaining groups of that file are not attempted: the next
\* command the commit phase issues, if any, is for another file.
C29_FailedPostResetEndsFile ==
    [][PostCommitResetFailed =>
          (last_cmd' = last_cmd \/ last_cmd'.file # last_cmd.file)]_vars

\* the staged units of the paths other than p
OtherPaths(idx, p) == {u \in idx : u[1] # p}

\* the step issues a command
Issues(cmd) == last_cmd' # last_cmd /\ last_cmd'.cmd = cmd

\* the group the command of the next state belongs to
IssuedGroup == files_commit_data[last_cmd'.file].groups[last_cmd'.group]

\* every reset names the path of the file being processed and leaves the
\* staged units of every other path as they were
ResetScoped ==
    Issues("reset") =>
        /\ last_cmd'.file = file_index
        /\ last_cmd'.path = files[file_index].path
        /\ OtherPaths(index', last_cmd'.path) = OtherPaths(index, last_cmd'.path)

\* the first command issued for a file on the partial path is the reset, so
\* a patch is applied only after a command for the same file
ResetBeforeFirstPatch ==
    /\ Issues("apply") => last_cmd.file = last_cmd'.file
    /\ (last_cmd' # last_cmd /\ last_cmd'.file # last_cmd.file
          /\ ~WholeFileCommit(IssuedGroup)) => last_cmd'.cmd = "reset"

\* C30: on the partial path the index is reset for the file's path before the
\* first patch of the file is applied, and every reset the commit phase
\* issues is scoped to the path of the file being processed, so staged
\* content of other paths is never unstaged by a reset.
C30_ResetsScopedToPath ==
    [][ResetScoped /\ ResetBeforeFirstPatch]_vars

\* the second file is on the partial path: its index was reset, its first
\* patch is applied, and the content staged beforehand for the first path is
\* still staged
C30_Witness ==
    /\ last_cmd.cmd = "apply"
    /\ last_cmd.file = 2
    /\ last_cmd.rc = 0
    /\ ~needs_initial_reset
    /\ <<1, PRE_STAGED>> \in index

\* the staged units of path p are those of HEAD
PathAtHead(idx, hd, p) == {u \in idx : u[1] = p} = {u \in hd : u[1] = p}

\* the command before a patch apply is a reset for the same file
ResetPrecedesApply ==
    Issues("apply") =>
        /\ last_cmd.cmd = "reset"
        /\ last_cmd.file = file_index
        /\ last_cmd.path = path

\* a reset that exited with status 0 leaves the path at HEAD for the apply
CleanAfterGoodReset ==
    (Issues("apply") /\ last_cmd.cmd = "reset" /\ last_cmd.rc = 0) =>
        PathAtHead(index, head, path)

C38_ErrorFollowsExitStatus ==
    last_cmd.cmd # "none" => (RunGitError(last_cmd) = None <=> last_cmd.rc = 0)

\* ---------------------------------------------------------------- process_files
Min2(a, b) == IF a <= b THEN a ELSE b
Max2(a, b) == IF a >= b THEN a ELSE b

\* a run that analyses every file, whatever the test mode
FilesToProcessAll(cfg) == NumFiles

\* files_to_process = files[:max(1, config.test_mode)] in test mode
FilesToProcess(cfg) ==
    IF cfg.test_mode.is_none THEN NumFiles
    ELSE Min2(NumFiles, Max2(1, cfg.test_mode.val))

\* one worker per file, whatever config.parallel says
MaxWorkersPerFile(cfg) == FilesToProcess(cfg)

\* max_workers of _process_files_parallel
MaxWorkers(cfg) ==
    IF cfg.parallel <= 0 THEN Min2(Len(results), CpuCount * 2)
    ELSE Min2(Len(results), cfg.parallel)

NoResult == [none |-> TRUE, file |-> 0]
DataResult(f) == [none |-> FALSE, file |-> f]

\* a join that returns as soon as the thread was started
ThreadStarted(w) == wpc[w] # "new"

\* thread.join() returns once the thread has finished
ThreadFinished(w) == wpc[w] = "done"

InitRun ==
    /\ InitRepo
    /\ IdleApply
    /\ IdleGroup
    /\ IdleSplit
    /\ IdlePatch
    /\ IdleFile
    /\ IdleMsg
    /\ IdleNorm
    /\ config \in [parallel : 0..MaxParallel,
                   test_mode : {NoTestMode} \cup {TestMode(k) : k \in 0..MaxTest},
                   push : BOOLEAN]
    /\ mpc = "start"
    /\ started = 0
    /\ joined = 0
    /\ file_queue = [i \in 1..FilesToProcess(config) |-> i]
    /\ results = [i \in 1..FilesToProcess(config) |-> NoResult]
    /\ wpc = [w \in Workers |-> "new"]
    /\ wfile = [w \in Workers |-> 0]
    /\ wout = [w \in Workers |-> "none"]
    /\ analysed = [i \in Paths |-> "pending"]

\* for _ in range(max_workers): thread = threading.Thread(target=worker); thread.start()
StartWorker ==
    /\ mpc = "start"
    /\ started < MaxWorkers(config)
    /\ started' = started + 1
    /\ wpc' = [wpc EXCEPT ![started + 1] = "take"]
    /\ UNCHANGED <<repoVars, applyVars, groupVars, pureVars, analysed, config, mpc, joined, file_queue,
                   results, wfile, wout>>

StartDone ==
    /\ mpc = "start"
    /\ started = MaxWorkers(config)
    /\ mpc' = "join"
    /\ UNCHANGED <<repoVars, applyVars, groupVars, pureVars, analysed, config, started, joined,
                   file_queue, results, wpc, wfile, wout>>

\* for thread in active_threads: thread.join()
JoinWorker ==
    /\ mpc = "join"
    /\ joined < started
    /\ ThreadFinished(joined + 1)
    /\ joined' = joined + 1
    /\ UNCHANGED <<repoVars, applyVars, groupVars, pureVars, analysed, config, mpc, started,
                   file_queue, results, wpc, wfile, wout>>

\* _process_files_parallel returns; the tree is built and printed
AnalysisReturn ==
    /\ mpc = "join"
    /\ joined = started
    /\ mpc' = "commit"
    /\ UNCHANGED <<repoVars, applyVars, groupVars, pureVars, analysed, config, started, joined,
                   file_queue, results, wpc, wfile, wout>>

\* step 4 of process_files: outside test mode the call names _apply_commits,
\* which no module defines, so the call raises NameError
CommitPhaseCall ==
    /\ mpc = "commit"
    /\ mpc' = IF config.test_mode.is_none THEN "raised" ELSE "push"
    /\ UNCHANGED <<repoVars, applyVars, groupVars, pureVars, analysed, config, started, joined,
                   file_queue, results, wpc, wfile, wout>>

\* step 5: no commit was made, so no push is attempted
PushStep ==
    /\ mpc = "push"
    /\ mpc' = "summary"
    /\ UNCHANGED <<repoVars, applyVars, groupVars, pureVars, analysed, config, started, joined,
                   file_queue, results, wpc, wfile, wout>>

\* step 6: render_final_summary and return
FinalSummary ==
    /\ mpc = "summary"
    /\ mpc' = "returned"
    /\ UNCHANGED <<repoVars, applyVars, groupVars, pureVars, analysed, config, started, joined,
                   file_queue, results, wpc, wfile, wout>>

\* a worker that reads the first file of the queue and leaves it there
WorkerTakeNoPop(w) ==
    /\ wpc[w] = "take"
    /\ IF file_queue = <<>>
       THEN /\ wpc' = [wpc EXCEPT ![w] = "done"]
            /\ UNCHANGED <<file_queue, wfile>>
       ELSE /\ wfile' = [wfile EXCEPT ![w] = Head(file_queue)]
            /\ file_queue' = file_queue
            /\ wpc' = [wpc EXCEPT ![w] = "process"]
    /\ UNCHANGED <<repoVars, applyVars, groupVars, pureVars, analysed, config, mpc, started, joined,
                   results, wout>>

\* worker: with lock: if not file_queue: return; index, file = file_queue.pop(0)
WorkerTake(w) ==
    /\ wpc[w] = "take"
    /\ IF file_queue = <<>>
       THEN /\ wpc' = [wpc EXCEPT ![w] = "done"]
            /\ UNCHANGED <<file_queue, wfile>>
       ELSE /\ wfile' = [wfile EXCEPT ![w] = Head(file_queue)]
            /\ file_queue' = Tail(file_queue)
            /\ wpc' = [wpc EXCEPT ![w] = "process"]
    /\ UNCHANGED <<repoVars, applyVars, groupVars, pureVars, analysed, config, mpc, started, joined,
                   results, wout>>

\* worker: commit_data = _process_file_hunks(file, config, repo)
WorkerProcess(w) ==
    /\ wpc[w] = "process"
    /\ \E out \in {"data", "none", "raise"} :
         /\ wout' = [wout EXCEPT ![w] = out]
         /\ analysed' = [analysed EXCEPT ![wfile[w]] = out]
    /\ wpc' = [wpc EXCEPT ![w] = "store"]
    /\ UNCHANGED <<repoVars, applyVars, groupVars, pureVars, config, mpc, started, joined,
                   file_queue, results, wfile>>

\* a worker that ends when the analysis of its file raised
WorkerStoreEndsOnRaise(w) ==
    /\ wpc[w] = "store"
    /\ results' = [results EXCEPT ![wfile[w]] =
                      IF wout[w] = "data" THEN DataResult(wfile[w]) ELSE NoResult]
    /\ wpc' = [wpc EXCEPT ![w] = IF wout[w] = "raise" THEN "done" ELSE "take"]
    /\ UNCHANGED <<repoVars, applyVars, groupVars, pureVars, analysed, config, mpc,
                   started, joined, file_queue, wfile, wout>>

\* a worker that puts a file whose analysis raised back into the queue
WorkerStoreRequeues(w) ==
    /\ wpc[w] = "store"
    /\ results' = [results EXCEPT ![wfile[w]] =
                      IF wout[w] = "data" THEN DataResult(wfile[w]) ELSE NoResult]
    /\ file_queue' = IF wout[w] = "raise" THEN Append(file_queue, wfile[w])
                     ELSE file_queue
    /\ wpc' = [wpc EXCEPT ![w] = "take"]
    /\ UNCHANGED <<repoVars, applyVars, groupVars, pureVars, analysed, config, mpc, started, joined,
                   wfile, wout>>

\* worker: with lock: results[index] = commit_data (None after an exception)
WorkerStore(w) ==
    /\ wpc[w] = "store"
    /\ results' = [results EXCEPT ![wfile[w]] =
                      IF wout[w] = "data" THEN DataResult(wfile[w]) ELSE NoResult]
    /\ wpc' = [wpc EXCEPT ![w] = "take"]
    /\ UNCHANGED <<repoVars, applyVars, groupVars, pureVars, analysed, config, mpc, started, joined,
                   file_queue, wfile, wout>>

NextRun ==
    \/ StartWorker
    \/ StartDone
    \/ JoinWorker
    \/ AnalysisReturn
    \/ CommitPhaseCall
    \/ PushStep
    \/ FinalSummary
    \/ \E w \in Workers : WorkerTake(w)
    \/ \E w \in Workers : WorkerProcess(w)
    \/ \E w \in Workers : WorkerStore(w)

SpecRun == InitRun /\ [][NextRun]_vars

\* _process_files_parallel called on a list of files, the empty list included;
\* of config it reads config.parallel only
InitParallel ==
    /\ InitRepo
    /\ IdleApply
    /\ IdleGroup
    /\ IdleSplit
    /\ IdlePatch
    /\ IdleFile
    /\ IdleMsg
    /\ IdleNorm
    /\ config \in [parallel : 0..MaxParallel, test_mode : {NoTestMode},
                   push : {FALSE}]
    /\ mpc = "start"
    /\ started = 0
    /\ joined = 0
    /\ \E n \in 0..NumFiles :
          /\ file_queue = [i \in 1..n |-> i]
          /\ results = [i \in 1..n |-> NoResult]
    /\ wpc = [w \in Workers |-> "new"]
    /\ wfile = [w \in Workers |-> 0]
    /\ wout = [w \in Workers |-> "none"]
    /\ analysed = [i \in Paths |-> "pending"]

\* the steps of the thread that runs _process_files_parallel
MainStep ==
    \/ StartWorker
    \/ StartDone
    \/ JoinWorker
    \/ AnalysisReturn

\* the steps of worker thread w; WorkerProcess is the analysis of one file,
\* which is assumed to end
WorkerStep(w) == WorkerTake(w) \/ WorkerProcess(w) \/ WorkerStore(w)

NextParallel ==
    \/ MainStep
    \/ \E w \in Workers : WorkerStep(w)

\* every thread that can take a step eventually takes one
FairSpecParallel ==
    /\ InitParallel
    /\ [][NextParallel]_vars
    /\ WF_vars(MainStep)
    /\ \A w \in Workers : WF_vars(WorkerStep(w))

\* ---------------------------------------------------------------- analysis phase: properties
\* some analysis worker has been started and has not returned
AnalysisRunning == \E w \in Workers : wpc[w] \in {"take", "process", "store"}

\* control has reached step 4 of process_files, the commit phase
CommitPhaseBegun == mpc \in {"commit", "raised", "push", "summary", "returned"}

\* C2: the commit phase begins only after every analysis worker has finished
\* (no worker is running and no file is left in the queue), and while analysis
\* runs no repository-mutating command is issued: the index and HEAD stay as
\* they are.
C2_CommitAfterAnalysis ==
    [][/\ CommitPhaseBegun' => (~AnalysisRunning' /\ file_queue' = <<>>)
       /\ AnalysisRunning =>
             (index' = index /\ head' = head /\ last_cmd' = last_cmd)]_vars

\* C2 happens: two workers analysed two files and control reached the commit
\* phase
C2_Witness ==
    /\ CommitPhaseBegun
    /\ started = 2
    /\ Len(results) = 2
    /\ \A i \in 1..Len(results) : ~results[i].none
    /\ \A w \in 1..2 : wfile[w] # 0

\* every file of the run has the result of its own analysis: None when the
\* analysis raised or returned None, its own data otherwise
OwnResults ==
    \A i \in 1..Len(results) :
        /\ analysed[i] # "pending"
        /\ results[i] = IF analysed[i] = "data" THEN DataResult(i) ELSE NoResult

\* a worker whose analysis raised stores its result and takes from the queue again
GoesOn ==
    \A w \in Workers :
        (wpc[w] = "store" /\ wout[w] = "raise" /\ wpc'[w] # wpc[w]) =>
            (wpc'[w] = "take" /\ results'[wfile[w]] = NoResult)

\* C23: an analysis that raises for one file aborts no other analysis: the
\* file's result is None, its worker goes on to take further files, and every
\* other file gets the result of its own analysis.
C23_FailureDoesNotAbortSiblings ==
    [](CommitPhaseBegun => OwnResults) /\ [][GoesOn]_vars

\* one worker analysed two files: the first analysis raised, the second gave
\* data, and the analysis phase has returned
C23_Witness ==
    /\ CommitPhaseBegun
    /\ started = 1
    /\ Len(results) >= 2
    /\ analysed[1] = "raise"
    /\ results[1] = NoResult
    /\ analysed[2] = "data"
    /\ results[2] = DataResult(2)

\* the workers that hold a file they took from the queue
InProgress == {w \in Workers : wpc[w] \in {"process", "store"}}

\* C24: the analysis phase never has more than W file analyses in progress at
\* once, W = min(number of files, config.parallel) when config.parallel > 0
\* and min(number of files, 2 * CPU count) otherwise.
C24_BoundedAnalyses ==
    Cardinality(InProgress) <=
        (IF config.parallel > 0 THEN Min2(Len(results), config.parallel)
         ELSE Min2(Len(results), 2 * CpuCount))

\* with config.parallel unset, as many analyses as the heuristic allows are in
\* progress at once, and more than one
C24_Witness ==
    /\ config.parallel = 0
    /\ Cardinality(InProgress) > 1
    /\ Cardinality(InProgress) = Min2(Len(results), 2 * CpuCount)

\* the files waiting in the queue
Queued == {file_queue[k] : k \in 1..Len(file_queue)}

\* the files of the input list are, each in one way only, waiting in the
\* queue, held by one worker, or done
FilesPartitioned ==
    /\ \A j, k \in 1..Len(file_queue) : j # k => file_queue[j] # file_queue[k]
    /\ \A v, w \in InProgress : v # w => wfile[v] # wfile[w]
    /\ \A w \in InProgress : wfile[w] \notin Queued
    /\ \A i \in Queued : analysed[i] = "pending"
    /\ \A w \in Workers : wpc[w] = "process" => analysed[wfile[w]] = "pending"

\* a file that was analysed is not analysed again
AnalysedAtMostOnce ==
    \A i \in 1..Len(results) : analysed[i] # "pending" => analysed'[i] = analysed[i]

\* the list returned has one slot per input file, slot i with the result of
\* the one analysis of file i, and the queue is empty
AllAnalysed ==
    /\ file_queue = <<>>
    /\ Len(results) = FilesToProcess(config)
    /\ \A i \in 1..Len(results) :
          /\ analysed[i] # "pending"
          /\ results[i].none = (analysed[i] # "data")
          /\ ~results[i].none => results[i].file = i

\* C35: in _process_files_parallel every file of the input list is analysed
\* exactly once, by exactly one worker, for every number of workers and every
\* interleaving: no file is taken twice, none is left in the queue, and the
\* returned list has one slot per input file, slot i holding the result of
\* file i.
C35_EachFileAnalysedOnce ==
    /\ []FilesPartitioned
    /\ [][AnalysedAtMostOnce]_vars
    /\ [](CommitPhaseBegun => AllAnalysed)

\* two workers ran side by side, each analysed one of two files, and the list
\* was returned
C35_Witness ==
    /\ CommitPhaseBegun
    /\ started = 2
    /\ wfile[1] # 0
    /\ wfile[2] # 0
    /\ wfile[1] # wfile[2]
    /\ \A i \in 1..2 : analysed[i] # "pending"

\* every worker that was started has exited, every join has returned and the
\* results list has been returned
ParallelReturned ==
    /\ CommitPhaseBegun
    /\ joined = started
    /\ \A w \in Workers : wpc[w] \in {"new", "done"}
    /\ file_queue = <<>>

\* C36: provided every single file analysis terminates,
\* _process_files_parallel terminates: every worker eventually finds the
\* queue empty and exits, all joins return and the results list is returned,
\* also for an empty file list, where no worker is started.
C36_ParallelTerminates == <>[]ParallelReturned

\* two workers were started for two files or more, both found the queue
\* empty and exited, and the list was returned
C36_Witness ==
    /\ ParallelReturned
    /\ Len(results) >= 2
    /\ started >= 2
    /\ \A w \in 1..started : wpc[w] = "done"

\* C27: no error aborts the whole run: outside test mode process_files goes
\* from the analysis phase through the commit phase to the final summary and
\* returns its counts; it never ends by an exception.
C27_RunNeverAborts ==
    config.test_mode.is_none => mpc # "raised"

\* config.test_mode is not None
InTestMode == ~config.test_mode.is_none

\* the step runs no git command and leaves the index and HEAD as they are
NoRepositoryChange ==
    /\ index' = index
    /\ head' = head
    /\ last_cmd' = last_cmd

\* C39: in test mode process_files issues no repository-mutating command: the
\* commit phase is not entered, no git add, reset, apply, commit or push is
\* run, for every input and every analysis outcome, and only the first
\* max(1, test_mode) files are analysed.
C39_TestModeChangesNothing ==
    /\ [](InTestMode =>
            /\ mpc # "raised"
            /\ last_cmd = NoCmd
            /\ \A i \in Paths :
                  analysed[i] # "pending" => i <= Max2(1, config.test_mode.val))
    /\ [][InTestMode => NoRepositoryChange]_vars

\* a run in test mode with the push option set returned: the first file was
\* analysed, the second was not, and no command was run
C39_Witness ==
    /\ InTestMode
    /\ config.push
    /\ mpc = "returned"
    /\ analysed[1] = "data"
    /\ analysed[2] = "pending"
    /\ last_cmd = NoCmd

\* ---------------------------------------------------------------- main
\* processed_files_count of _build_commit_tree: the files whose analysis left
\* commit data
ProcessedFilesCount == Cardinality({i \in 1..Len(results) : ~results[i].none})

\* the run has ended: process_files returned to main or raised through it
Exited == mpc \in {"returned", "raised"}

\* the exit status of sys.exit(main()): main returns 0 after process_files
\* returned, whatever the counts are; an exception that leaves process_files
\* is not caught by main and ends the interpreter with status 1
ExitStatus == IF mpc = "returned" THEN 0 ELSE 1

MaxDiffLines == 5

MAX_DIFF_SIZE == 8000

DiffLineKinds == {"hunk1", "hunk20", "hunk5", "def", "doc", "ctx", "long"}

ChunkLevels == 0..3

\* len(line)
LineLen(kind) ==
    CASE kind = "hunk1" -> 17
      [] kind = "hunk20" -> 19
      [] kind = "hunk5" -> 15
      [] kind = "def" -> 10
      [] kind = "doc" -> 3
      [] kind = "ctx" -> 2
      [] kind = "long" -> MAX_DIFF_SIZE

\* line.startswith("@@")
IsHunkHeader(kind) == kind \in {"hunk1", "hunk20", "hunk5"}

\* _extract_start_line
ExtractStartLine(kind) ==
    CASE kind = "hunk1" -> 1
      [] kind = "hunk20" -> 20
      [] kind = "hunk5" -> 5
      [] OTHER -> 1

Text(lines, nl) == [lines |-> lines, nl |-> nl]
EmptyText == Text(<<>>, FALSE)

RECURSIVE SumLineLen(_, _, _)
SumLineLen(d, lines, k) ==
    IF k > Len(lines) THEN 0 ELSE LineLen(d[lines[k]]) + SumLineLen(d, lines, k + 1)

\* len(text)
TextLen(d, t) ==
    IF t.lines = <<>> THEN 0
    ELSE SumLineLen(d, t.lines, 1) + (Len(t.lines) - 1) + (IF t.nl THEN 1 ELSE 0)

\* the argument diff as a text
WholeDiff(d, nl) == Text([k \in 1..Len(d) |-> k], nl)

Chunk(text, start_line, context) ==
    [diff |-> text, start_line |-> start_line, context |-> context]

\* _split_by_file
SplitByFile(d, nl) == <<Chunk(WholeDiff(d, nl), 1, None)>>

\* _handle_test_pattern: parts = diff.split("@@ -20,", 1)
HandleTestPattern(d, nl) ==
    LET at == SetMin({k \in 1..Len(d) : d[k] = "hunk20"})
    IN  << Chunk(Text([k \in 1..(at - 1) |-> k], at > 1), 1, None),
           Chunk(Text([k \in 1..(Len(d) - at + 1) |-> at + k - 1], nl), 20, None) >>

\* len(current_chunk): every line was added with its "\n"
CurrentLen(d, lines) == SumLineLen(d, lines, 1) + Len(lines)

\* one iteration of "for line in diff.splitlines()" of _split_by_hunk
HunkLoopStep(d, st, i) ==
    LET added == Append(st.current_chunk, i)
        header == IsHunkHeader(d[i])
        csl == IF header THEN ExtractStartLine(d[i]) ELSE st.current_start_line
        save == header /\ st.found_hunk
        s1 == IF save
              THEN [chunks |-> Append(st.chunks, Chunk(Text(added, TRUE), st.start_line, None)),
                    current_chunk |-> <<i>>,
                    start_line |-> csl]
              ELSE [chunks |-> st.chunks, current_chunk |-> added,
                    start_line |-> st.start_line]
        large == CurrentLen(d, s1.current_chunk) >= MAX_DIFF_SIZE
    IN  [chunks |-> IF large
                    THEN Append(s1.chunks,
                                Chunk(Text(s1.current_chunk, TRUE), s1.start_line, None))
                    ELSE s1.chunks,
         current_chunk |-> IF large THEN <<>> ELSE s1.current_chunk,
         start_line |-> IF large THEN csl ELSE s1.start_line,
         current_start_line |-> csl,
         found_hunk |-> st.found_hunk \/ header]

RECURSIVE HunkLoop(_, _, _)
HunkLoop(d, st, i) ==
    IF i > Len(d) THEN st ELSE HunkLoop(d, HunkLoopStep(d, st, i), i + 1)

\* _split_by_hunk
SplitByHunk(d, nl) ==
    IF d = <<>> \/ TextLen(d, WholeDiff(d, nl)) <= MAX_DIFF_SIZE
    THEN <<Chunk(WholeDiff(d, nl), 1, None)>>
    ELSE LET st == HunkLoop(d, [chunks |-> <<>>, current_chunk |-> <<>>,
                                start_line |-> 1, current_start_line |-> 1,
                                found_hunk |-> FALSE], 1)
             all == IF st.current_chunk # <<>>
                    THEN Append(st.chunks,
                                Chunk(Text(st.current_chunk, TRUE), st.start_line, None))
                    ELSE st.chunks
         IN  IF all = <<>> THEN <<Chunk(WholeDiff(d, nl), 1, None)>> ELSE all

\* one iteration of the loop of _collect_hunks
CollectStep(d, st, i) ==
    LET header == IsHunkHeader(d[i])
        close == header /\ st.hunk_lines # <<>>
    IN  [hunks |-> IF close
                   THEN Append(st.hunks, [lines |-> st.hunk_lines,
                                          start_line |-> st.hunk_start_line])
                   ELSE st.hunks,
         hunk_lines |-> Append(IF close THEN <<>> ELSE st.hunk_lines, i),
         hunk_start_line |-> IF header THEN ExtractStartLine(d[i])
                             ELSE st.hunk_start_line]

RECURSIVE CollectLoop(_, _, _)
CollectLoop(d, st, i) ==
    IF i > Len(d) THEN st ELSE CollectLoop(d, CollectStep(d, st, i), i + 1)

\* _collect_hunks: each hunk's "diff" is "\n".join(hunk_lines) + "\n"
CollectHunks(d) ==
    LET st == CollectLoop(d, [hunks |-> <<>>, hunk_lines |-> <<>>,
                              hunk_start_line |-> 1], 1)
    IN  IF st.hunk_lines # <<>>
        THEN Append(st.hunks, [lines |-> st.hunk_lines,
                               start_line |-> st.hunk_start_line])
        ELSE st.hunks

\* re.search(r"^\+\s*class\s+(\w+)") or re.search(r"^\+\s*def\s+(\w+)")
IsUnitStart(kind) == kind = "def"

\* one iteration of the loop of _process_logical_unit_hunk
UnitLoopStep(d, st, i, hunk_start) ==
    LET boundary == IsUnitStart(d[i])
        save == boundary /\ st.current_unit # <<>> /\ st.current_context # None
    IN  [chunks |-> IF save
                    THEN Append(st.chunks, Chunk(Text(st.current_unit, TRUE),
                                                 hunk_start, st.current_context))
                    ELSE st.chunks,
         current_unit |-> Append(IF save THEN <<>> ELSE st.current_unit, i),
         current_context |-> IF boundary THEN "def" ELSE st.current_context]

RECURSIVE UnitLoop(_, _, _, _, _)
UnitLoop(d, lines, st, k, hunk_start) ==
    IF k > Len(lines) THEN st
    ELSE UnitLoop(d, lines, UnitLoopStep(d, st, lines[k], hunk_start), k + 1, hunk_start)

\* _process_logical_unit_hunk
ProcessLogicalUnitHunk(d, hunk) ==
    LET matches == Cardinality({k \in 1..Len(hunk.lines) : IsUnitStart(d[hunk.lines[k]])})
    IN  IF matches > 1
        THEN LET st == UnitLoop(d, hunk.lines,
                                [chunks |-> <<>>, current_unit |-> <<>>,
                                 current_context |-> None], 1, hunk.start_line)
             IN  IF st.current_unit # <<>>
                 THEN Append(st.chunks,
                             Chunk(Text(st.current_unit, TRUE), hunk.start_line,
                                   IF st.current_context # None THEN st.current_context
                                   ELSE "unknown"))
                 ELSE st.chunks
        ELSE <<Chunk(Text(hunk.lines, TRUE), hunk.start_line,
                     IF matches = 1 THEN "def" ELSE "hunk")>>

RECURSIVE ExtendChunks(_, _, _)
ExtendChunks(d, hunks, k) ==
    IF k > Len(hunks) THEN <<>>
    ELSE ProcessLogicalUnitHunk(d, hunks[k]) \o ExtendChunks(d, hunks, k + 1)

\* _split_by_logical_unit
SplitByLogicalUnit(d, nl) ==
    LET hunks == CollectHunks(d)
        semantic_chunks == ExtendChunks(d, hunks, 1)
    IN  IF hunks = <<>> \/ semantic_chunks = <<>>
        THEN <<Chunk(WholeDiff(d, nl), 1, None)>>
        ELSE semantic_chunks

\* f"{current_context or 'unknown'} ({change_type})"
SrpLabel(current_context, doc_change) ==
    IF current_context = None
    THEN IF doc_change THEN "unknown (documentation)" ELSE "unknown (signature)"
    ELSE IF doc_change THEN "def (documentation)" ELSE "def (signature)"

\* a loop body that starts the next chunk empty after a cut
SrpLoopStepCutDropsLine(d, st, i) ==
    LET header == IsHunkHeader(d[i])
        csl == IF header THEN ExtractStartLine(d[i]) ELSE st.current_start_line
        doc_change == d[i] = "doc"
        signature_change == d[i] = "def"
        cut == (doc_change \/ signature_change) /\ st.current_chunk # <<>>
    IN  [chunks |-> IF cut
                    THEN Append(st.chunks, Chunk(Text(st.current_chunk, TRUE),
                                                 st.semantic_start_line,
                                                 SrpLabel(st.current_context, doc_change)))
                    ELSE st.chunks,
         current_chunk |-> IF cut THEN <<>> ELSE Append(st.current_chunk, i),
         current_context |-> st.current_context,
         semantic_start_line |-> IF cut THEN csl ELSE st.semantic_start_line,
         current_start_line |-> csl]

\* one iteration of the loop of _split_by_srp
SrpLoopStep(d, st, i) ==
    LET header == IsHunkHeader(d[i])
        csl == IF header THEN ExtractStartLine(d[i]) ELSE st.current_start_line
        ssl0 == IF header /\ st.current_context = None THEN csl
                ELSE st.semantic_start_line
        boundary == IsUnitStart(d[i])
        save == boundary /\ st.current_chunk # <<>> /\ st.current_context # None
        chunks1 == IF save
                   THEN Append(st.chunks, Chunk(Text(st.current_chunk, TRUE), ssl0,
                                                st.current_context))
                   ELSE st.chunks
        chunk1 == IF save THEN <<>> ELSE st.current_chunk
        context1 == IF boundary THEN "def" ELSE st.current_context
        ssl1 == IF boundary THEN csl ELSE ssl0
        doc_change == d[i] = "doc"
        signature_change == d[i] = "def"
        cut == (doc_change \/ signature_change) /\ chunk1 # <<>>
    IN  [chunks |-> IF cut
                    THEN Append(chunks1, Chunk(Text(chunk1, TRUE), ssl1,
                                               SrpLabel(context1, doc_change)))
                    ELSE chunks1,
         current_chunk |-> Append(IF cut THEN <<>> ELSE chunk1, i),
         current_context |-> context1,
         semantic_start_line |-> IF cut THEN csl ELSE ssl1,
         current_start_line |-> csl]

RECURSIVE SrpLoop(_, _, _)
SrpLoop(d, st, i) ==
    IF i > Len(d) THEN st ELSE SrpLoop(d, SrpLoopStep(d, st, i), i + 1)

\* _split_by_srp
SplitBySrp(d, nl) ==
    LET st == SrpLoop(d, [chunks |-> <<>>, current_chunk |-> <<>>,
                          current_context |-> None, semantic_start_line |-> 1,
                          current_start_line |-> 1], 1)
        all == IF st.current_chunk # <<>>
               THEN Append(st.chunks,
                           Chunk(Text(st.current_chunk, TRUE), st.semantic_start_line,
                                 IF st.current_context # None THEN st.current_context
                                 ELSE "unknown"))
               ELSE st.chunks
    IN  IF all = <<>> /\ d # <<>> THEN <<Chunk(WholeDiff(d, nl), 1, None)>> ELSE all

\* split_diff_into_chunks
SplitDiffIntoChunks(d, nl, level) ==
    IF d = <<>> THEN <<Chunk(EmptyText, 1, None)>>
    ELSE IF level = 1 /\ (\E k \in 1..Len(d) : d[k] = "hunk1")
                      /\ (\E k \in 1..Len(d) : d[k] = "hunk20")
    THEN HandleTestPattern(d, nl)
    ELSE IF level = 0 THEN SplitByFile(d, nl)
    ELSE IF level = 1 THEN SplitByHunk(d, nl)
    ELSE IF level = 2 THEN SplitByLogicalUnit(d, nl)
    ELSE IF level = 3 THEN SplitBySrp(d, nl)
    ELSE SplitByHunk(d, nl)

InitSplit ==
    /\ IdleRepo
    /\ IdleApply
    /\ IdleRun
    /\ IdleGroup
    /\ IdlePatch
    /\ IdleFile
    /\ IdleMsg
    /\ IdleNorm
    /\ diff \in UNION {[1..n -> DiffLineKinds] : n \in 0..MaxDiffLines}
    /\ diff_ends_nl \in (IF diff = <<>> THEN {FALSE} ELSE BOOLEAN)
    /\ chunk_level \in ChunkLevels
    /\ spc = "call"
    /\ chunks = <<>>

\* chunks = split_diff_into_chunks(diff, chunk_level)
SplitCall ==
    /\ spc = "call"
    /\ chunks' = SplitDiffIntoChunks(diff, diff_ends_nl, chunk_level)
    /\ spc' = "returned"
    /\ UNCHANGED <<repoVars, applyVars, runVars, groupVars, patchVars, fileVars, msgVars, normVars,
                   diff, diff_ends_nl, chunk_level>>

NextSplit == SplitCall

SpecSplit == InitSplit /\ [][NextSplit]_vars

\* the line positions of the chunks' texts, in order
ChunkLines(cs) == Flatten([k \in 1..Len(cs) |-> cs[k].diff.lines])

\* the chunks' texts, joined, read as the lines of d, none merged with the next
\* and the whole ending as d ends
JoinsTo(cs, d, nl) ==
    LET ls == ChunkLines(cs)
        filled == {k \in 1..Len(cs) : cs[k].diff.lines # <<>>}
    IN  /\ [k \in 1..Len(ls) |-> d[ls[k]]] = d
        /\ \A k \in filled :
              cs[k].diff.nl = (IF \E j \in filled : j > k THEN TRUE ELSE nl)

\* C14: at level 1 the texts of the returned chunks, joined in order, are the
\* input diff verbatim: no line gained, duplicated or lost, whatever its size.
C14_RoundTripLevel1 ==
    (spc = "returned" /\ chunk_level = 1) => JoinsTo(chunks, diff, diff_ends_nl)

\* C15: at levels 2 and 3 no line is dropped or duplicated: the lines of the
\* returned chunks, in order, are the lines of the input, in order, and so are
\* as many.
C15_NoLineLostLevels23 ==
    (spc = "returned" /\ chunk_level \in {2, 3}) =>
        LET ls == ChunkLines(chunks)
        IN  /\ Len(ls) = Len(diff)
            /\ [k \in 1..Len(ls) |-> diff[ls[k]]] = diff

\* a diff that level 3 cut into three chunks or more
C15_Witness ==
    /\ spc = "returned"
    /\ chunk_level = 3
    /\ Len(chunks) >= 3
    /\ Len(ChunkLines(chunks)) = Len(diff)

\* the positions of the hunk headers of d
HeaderLines(d) == {k \in 1..Len(d) : IsHunkHeader(d[k])}

SetMax(S) == CHOOSE x \in S : \A y \in S : x >= y

\* d is a file header followed by two hunks, each longer than MAX_DIFF_SIZE
HeaderAndTwoLargeHunks(d) ==
    /\ Cardinality(HeaderLines(d)) = 2
    /\ LET a == SetMin(HeaderLines(d))
           b == SetMax(HeaderLines(d))
       IN  /\ a > 1
           /\ \A k \in 1..(a - 1) : d[k] = "ctx"
           /\ \E k \in (a + 1)..(b - 1) : d[k] = "long"
           /\ \E k \in (b + 1)..Len(d) : d[k] = "long"

\* C16: at level 1 a file header with two hunks, each larger than the size
\* threshold, gives exactly two chunks, one per hunk, each with the old-start
\* number of its hunk's header as start_line, whatever the two numbers are.
C16_TwoLargeHunksTwoChunks ==
    (spc = "returned" /\ chunk_level = 1 /\ HeaderAndTwoLargeHunks(diff)) =>
        /\ Len(chunks) = 2
        /\ chunks[1].start_line = ExtractStartLine(diff[SetMin(HeaderLines(diff))])
        /\ chunks[2].start_line = ExtractStartLine(diff[SetMax(HeaderLines(diff))])

\* the result is one chunk holding the text t
OneChunkOf(cs, t) == Len(cs) = 1 /\ cs[1].diff = t

\* C17: at level 1 a diff no longer than MAX_DIFF_SIZE comes back as exactly
\* one chunk, its text the input unchanged and its start_line 1, whatever hunk
\* headers it holds; an empty diff gives one empty chunk at every level.
C17_SmallDiffWhole ==
    spc = "returned" =>
        /\ (chunk_level = 1 /\ TextLen(diff, WholeDiff(diff, diff_ends_nl)) <= MAX_DIFF_SIZE)
              => (OneChunkOf(chunks, WholeDiff(diff, diff_ends_nl))
                    /\ chunks[1].start_line = 1)
        /\ diff = <<>> => OneChunkOf(chunks, EmptyText)

\* C18: a non-empty diff without any hunk-marker line comes back as a single
\* chunk that holds all its lines, at every level 0..3 and for every size.
C18_NoMarkerOneChunk ==
    (spc = "returned" /\ diff # <<>> /\ HeaderLines(diff) = {}) =>
        /\ Len(chunks) = 1
        /\ chunks[1].diff.lines = WholeDiff(diff, diff_ends_nl).lines

\* d is a file header, lines that are no hunk header, followed by hunks
HeaderThenHunks(d) ==
    /\ HeaderLines(d) # {}
    /\ SetMin(HeaderLines(d)) > 1
    /\ \A k \in 1..(SetMin(HeaderLines(d)) - 1) : d[k] = "ctx"

\* C33: for a diff that has a file header followed by hunks, every chunk that
\* split_diff_into_chunks returns at levels 1, 2 and 3 begins with a hunk
\* header line: no chunk begins with file-header lines and none consists of
\* header lines only.
C33_ChunksBeginWithHunkHeader ==
    (spc = "returned" /\ chunk_level \in 1..3 /\ HeaderThenHunks(diff)) =>
        \A k \in 1..Len(chunks) :
            /\ chunks[k].diff.lines # <<>>
            /\ IsHunkHeader(diff[chunks[k].diff.lines[1]])

MaxTextLen == 2

\* the characters of a text: a visible character, a blank, a newline; "h"
\* stands for a header line of the file's diff
Chars == {"x", " ", "\n"}
Whitespace == {" ", "\n"}

\* str.lstrip()
RECURSIVE StripLeft(_)
StripLeft(t) ==
    IF t # <<>> /\ Head(t) \in Whitespace THEN StripLeft(Tail(t)) ELSE t

\* str.rstrip()
RECURSIVE StripRight(_)
StripRight(t) ==
    IF t # <<>> /\ t[Len(t)] \in Whitespace
    THEN StripRight(SubSeq(t, 1, Len(t) - 1))
    ELSE t

\* a strip that leaves the end of the text as it is
StripLeftOnly(t) == StripLeft(t)

\* str.strip()
Strip(t) == StripRight(StripLeft(t))

\* sep.join(texts)
RECURSIVE Join(_, _)
Join(texts, sep) ==
    IF texts = <<>> THEN <<>>
    ELSE IF Len(texts) = 1 THEN texts[1]
    ELSE texts[1] \o sep \o Join(Tail(texts), sep)

\* a hunk text as split_diff_into_chunks produces it: it holds a visible
\* character
HunkTexts ==
    {t \in UNION {[1..n -> Chars] : n \in 1..MaxTextLen} :
        \E k \in 1..Len(t) : t[k] = "x"}

\* the sequences of distinct hunk positions out of 1..n, the empty one included
Selections(n) ==
    {g \in UNION {[1..m -> 1..n] : m \in 0..n} :
        \A i, j \in 1..Len(g) : i # j => g[i] # g[j]}

\* "\n".join(header_lines)
Header(has) == IF has THEN <<"h">> ELSE <<>>

\* patch_body = "\n".join(hunk["diff"].strip() for hunk in group_hunks)
PatchBody(texts, g) == Join([k \in 1..Len(g) |-> Strip(texts[g[k]])], <<"\n">>)

\* _create_patch_for_group
CreatePatchForGroup(has, texts, g) ==
    IF g = <<>> THEN <<>>
    ELSE IF Header(has) = <<>> THEN <<>>
    ELSE LET patch_body == PatchBody(texts, g)
         IN  Header(has)
               \o (IF patch_body # <<>> THEN <<"\n">> \o patch_body ELSE <<>>)
               \o <<"\n">>

InitPatch ==
    /\ IdleFile
    /\ IdleMsg
    /\ IdleNorm
    /\ IdleRepo
    /\ IdleApply
    /\ IdleRun
    /\ IdleGroup
    /\ IdleSplit
    /\ has_header \in BOOLEAN
    /\ hunk_texts \in UNION {[1..n -> HunkTexts] : n \in 2..MaxHunks}
    /\ group_hunks \in Selections(Len(hunk_texts))
    /\ ppc = "call"
    /\ full_patch = <<>>
    /\ appended = FALSE

\* group_patch_content = _create_patch_for_group(full_diff, group); an empty
\* patch skips the group, any other is appended to commit_data_list
PatchCall ==
    /\ ppc = "call"
    /\ full_patch' = CreatePatchForGroup(has_header, hunk_texts, group_hunks)
    /\ appended' = (full_patch' # <<>>)
    /\ ppc' = "returned"
    /\ UNCHANGED <<repoVars, applyVars, runVars, groupVars, splitVars, fileVars, msgVars, normVars,
                   has_header, hunk_texts, group_hunks>>

NextPatch == PatchCall

SpecPatch == InitPatch /\ [][NextPatch]_vars

\* the hunks of g in their order in the file's diff
RECURSIVE InFileOrder(_)
InFileOrder(g) ==
    IF g = <<>> THEN <<>>
    ELSE LET first == SetMin({g[k] : k \in 1..Len(g)})
         IN  <<first>> \o InFileOrder(SelectSeq(g, LAMBDA h : h # first))

\* C19: the patch lists the selected hunks in their original relative order in
\* the file's diff, whatever order the caller passes them in.
C19_BodyInFileOrder ==
    (ppc = "returned" /\ has_header /\ group_hunks # <<>>) =>
        full_patch = Header(has_header) \o <<"\n">>
                        \o PatchBody(hunk_texts, InFileOrder(group_hunks)) \o <<"\n">>

\* t ends with one newline and no second one before it
EndsWithOneNewline(t) ==
    /\ t # <<>>
    /\ t[Len(t)] = "\n"
    /\ Len(t) >= 2 => t[Len(t) - 1] # "\n"

C21_NoHeaderStillRecorded ==
    (ppc = "returned" /\ ~has_header /\ group_hunks # <<>>) => appended

\* ---------------------------------------------------------------- _process_file_hunks
MaxFileLines == 4

FileStatuses == {"M", "D", "??"}

\* how generate_commit_message ends: a message, an empty reply, OpenAIError,
\* or another exception (raised inside its own handlers)
DraftOutcomes == {"ok", "empty", "OpenAIError", "Exception"}

\* a drafting that treats an unexpected exception as a message
DraftMessageNoSystemError(o) ==
    CASE o = "ok" -> MSG_OK
      [] o = "empty" -> MSG_EMPTY
      [] o = "OpenAIError" -> MSG_AI_ERROR
      [] o = "Exception" -> MSG_OK

\* try: message = generate_commit_message(...) except OpenAIError / Exception
DraftMessage(o) ==
    CASE o = "ok" -> MSG_OK
      [] o = "empty" -> MSG_EMPTY
      [] o = "OpenAIError" -> MSG_AI_ERROR
      [] o = "Exception" -> MSG_SYSTEM_ERROR

\* file["diff"] as get_uncommitted_files builds it: a marker line for a deleted
\* or binary file, "New file: <path>", an empty line and the content for an
\* untracked file, else the output of git diff (empty, or header lines, here
\* one line, followed by the hunks)
FileDiffs(st, bin) ==
    IF StartsWithD(st) \/ bin THEN {<<"ctx">>}
    ELSE IF st = "??"
    THEN {<<"ctx", "ctx">> \o c :
            c \in UNION {[1..n -> {"ctx", "long", "def", "doc"}] :
                            n \in 0..(MaxFileLines - 2)}}
    ELSE {<<>>} \cup
         {<<"ctx">> \o r :
            r \in UNION {[1..n -> DiffLineKinds] : n \in 0..(MaxFileLines - 1)}}

\* whether full_diff holds a "diff --git" / "index " / "--- " / "+++ " line
HasHeaderLines(st, d) == st = "M" /\ d # <<>>

\* hunk_groups at the start of the record loop: the fallback group of all
\* hunks, which is what every classification ends in, or two groups, which a
\* classification whose groups survive the conversion would leave
Groupings(n) ==
    {<<[k \in 1..n |-> k - 1]>>, <<<<0>>, [k \in 1..(n - 1) |-> k]>>}

\* the record the loop appends for group g of a file of n hunks
HunkGroupRecord(msg, g, n) ==
    [message |-> msg, error |-> FALSE, has_patch |-> TRUE,
     patch |-> {g[k] : k \in 1..Len(g)}, is_binary |-> FALSE, status |-> "",
     total_hunks_in_file |-> n]

\* the record loop: a group whose patch is empty is skipped
RECURSIVE FileRecords(_, _, _, _, _)
FileRecords(has, groups, os, n, i) ==
    IF i > Len(groups) THEN <<>>
    ELSE (IF has THEN <<HunkGroupRecord(DraftMessage(os[i]), groups[i], n)>> ELSE <<>>)
            \o FileRecords(has, groups, os, n, i + 1)

InitFile ==
    /\ IdleMsg
    /\ IdleNorm
    /\ IdleRepo
    /\ IdleApply
    /\ IdleRun
    /\ IdlePatch
    /\ num_hunks = 0
    /\ classifier = [raises |-> TRUE, response |-> <<>>]
    /\ gpc = "idle"
    /\ classified = <<>>
    /\ hunk_groups = <<>>
    /\ commit_data_list = <<>>
    /\ file_status \in FileStatuses
    /\ file_is_binary \in BOOLEAN
    /\ diff \in FileDiffs(file_status, file_is_binary)
    /\ diff_ends_nl \in (IF file_status = "??" /\ ~file_is_binary THEN BOOLEAN ELSE {FALSE})
    /\ chunk_level \in ChunkLevels
    /\ spc = "idle"
    /\ chunks = <<>>
    /\ fpc = "call"
    /\ drafts = <<>>
    /\ classify_calls = 0

\* a classification that is asked once per hunk
ClassifyCallsPerHunk(marked, n) == IF marked THEN 0 ELSE n

\* the calls of classify_hunks in _process_file_hunks: none on the early
\* returns to _process_whole_file, one after them
ClassifyCalls(marked, n) == IF marked \/ n = 1 THEN 0 ELSE 1

\* commit_data = _process_file_hunks(file, config, repo)
ProcessFileHunks ==
    /\ fpc = "call"
    /\ classify_calls' =
          ClassifyCalls(StartsWithD(file_status) \/ file_is_binary,
                        Len(SplitDiffIntoChunks(diff, diff_ends_nl, chunk_level)))
    /\ LET hunks == SplitDiffIntoChunks(diff, diff_ends_nl, chunk_level)
           marked == StartsWithD(file_status) \/ file_is_binary
       IN  IF marked \/ Len(hunks) = 1
           THEN \E o \in DraftOutcomes :
                  /\ drafts' = <<o>>
                  /\ chunks' = IF marked THEN <<>> ELSE hunks
                  /\ hunk_groups' = <<>>
                  /\ commit_data_list' =
                        <<WholeGroup(DraftMessage(o), o \in {"OpenAIError", "Exception"},
                                     file_status, file_is_binary)>>
           ELSE \E groups \in Groupings(Len(hunks)) :
                \E os \in [1..Len(groups) -> DraftOutcomes] :
                  /\ drafts' = os
                  /\ chunks' = hunks
                  /\ hunk_groups' = groups
                  /\ commit_data_list' =
                        FileRecords(HasHeaderLines(file_status, diff), groups, os,
                                    Len(hunks), 1)
    /\ fpc' = "returned"
    /\ UNCHANGED <<repoVars, applyVars, runVars, patchVars, msgVars, normVars, num_hunks, classifier,
                   gpc, classified, diff, diff_ends_nl, chunk_level, spc,
                   file_status, file_is_binary>>

NextFile == ProcessFileHunks

SpecFile == InitFile /\ [][NextFile]_vars

\* C22: a binary, deleted or untracked file always takes the whole-file path:
\* analysis yields exactly one commit record for it, and that record is one
\* the commit phase stages with git add, never by applying a patch.
C22_MarkedFilesWholeFile ==
    (fpc = "returned"
        /\ (file_is_binary \/ StartsWithD(file_status) \/ file_status = "??")) =>
        /\ Len(commit_data_list) = 1
        /\ WholeFileCommit(commit_data_list[1])

HeaderLinesOf(d) == <<1>>

\* the lines of the patch _create_patch_for_group builds for group g of the
\* chunks cs: the header lines, then the text of every hunk of the group
GroupPatchLines(d, cs, g) ==
    HeaderLinesOf(d) \o Flatten([k \in 1..Len(g) |-> cs[g[k] + 1].diff.lines])

\* how often line position p occurs in the patch lines pl
Occurrences(pl, p) == Cardinality({k \in 1..Len(pl) : pl[k] = p})

\* C37: for every group of a multi-hunk file, at every chunk level, the patch
\* built by _create_patch_for_group holds each file-header line exactly once,
\* before its first hunk, and holds the hunks of that group and of no other;
\* this holds also for the group that holds the first chunk of the diff.
C37_HeaderOncePerPatch ==
    (fpc = "returned" /\ hunk_groups # <<>> /\ HasHeaderLines(file_status, diff)) =>
        \A i \in 1..Len(hunk_groups) :
            LET pl == GroupPatchLines(diff, chunks, hunk_groups[i])
            IN  /\ pl[1] = 1
                /\ Occurrences(pl, 1) = 1
                /\ \A j \in 1..Len(chunks) : \A k \in 1..Len(chunks[j].diff.lines) :
                      (chunks[j].diff.lines[k] # 1) =>
                          (Occurrences(pl, chunks[j].diff.lines[k]) =
                             (IF \E m \in 1..Len(hunk_groups[i]) :
                                    hunk_groups[i][m] = j - 1
                              THEN 1 ELSE 0))

\* a message that carries the "(AI Error)" or "(System Error)" marker
Placeholder(msg) == msg \in {MSG_AI_ERROR, MSG_SYSTEM_ERROR}

\* every group of the file was drafted, whatever the other draftings did
AllDrafted == Len(drafts) = (IF hunk_groups = <<>> THEN 1 ELSE Len(hunk_groups))

\* the records are those of the draftings, one for one
RecordedAll == Len(commit_data_list) = Len(drafts)

\* C25: a failing message-drafting call never leaves the analysis of its
\* file: its group gets the placeholder with the "(AI Error)" or "(System
\* Error)" marker, the other groups are drafted all the same, and the commit
\* phase's validation skips exactly the groups with a placeholder or with an
\* empty message.
C25_DraftFailureContained ==
    fpc = "returned" =>
        /\ AllDrafted
        /\ RecordedAll =>
              \A k \in 1..Len(drafts) :
                 LET r == commit_data_list[k]
                 IN  /\ drafts[k] = "OpenAIError" => r.message = MSG_AI_ERROR
                     /\ drafts[k] = "Exception" => r.message = MSG_SYSTEM_ERROR
                     /\ drafts[k] = "ok" => r.message = MSG_OK
                     /\ InvalidGroup(r) <=> (Placeholder(r.message) \/ r.message = MSG_EMPTY)

\* two groups: the drafting of the first failed, the second has its message
C25_Witness ==
    /\ fpc = "returned"
    /\ Len(hunk_groups) = 2
    /\ drafts = <<"OpenAIError", "ok">>
    /\ RecordedAll
    /\ InvalidGroup(commit_data_list[1])
    /\ ~InvalidGroup(commit_data_list[2])

\* C25 as stated: the commit phase's validation skips exactly the groups with a
\* placeholder.
C25_ExactlyPlaceholdersSkipped ==
    (fpc = "returned" /\ RecordedAll) =>
        \A k \in 1..Len(drafts) :
            InvalidGroup(commit_data_list[k]) <=> Placeholder(commit_data_list[k].message)

\* ---------------------------------------------------------------- parallel message generation
MaxChunks == 2

\* processor._generate_messages_parallel, message_generator.generate_messages_parallel
Generators == {"processor", "message_generator"}

MSG_PENDING == "[Chore] Commit changes (Generation Pending)"

\* max_workers of the thread pool
PoolWorkers(n, level) ==
    IF level <= 0 THEN Min2(n, CpuCount * 2) ELSE Min2(n, level)

\* what the collecting loop stores for chunk i: future.result(), the message
\* generated for that chunk, or the placeholder of the except branch
FutureResult(i, o) ==
    [chunk |-> IF o \in {"ok", "empty"} THEN i ELSE 0, text |-> DraftMessage(o)]

\* messages = [<initial text>] * len(chunks)
InitialMessages(gen, n) ==
    [i \in 1..n |-> [chunk |-> 0,
                     text |-> IF gen = "processor" THEN MSG_EMPTY ELSE MSG_PENDING]]

InitMsg ==
    /\ IdleNorm
    /\ IdleRepo
    /\ IdleApply
    /\ IdleRun
    /\ IdleGroup
    /\ IdleSplit
    /\ IdlePatch
    /\ IdleFile
    /\ generator \in Generators
    /\ parallel_level \in 0..MaxParallel
    /\ chunk_outcomes \in UNION {[1..n -> DraftOutcomes] : n \in 0..MaxChunks}
    /\ futures = [i \in 1..Len(chunk_outcomes) |-> "pending"]
    /\ completed = <<>>
    /\ messages = <<>>
    /\ mgpc = "call"

\* the call up to the submission of the tasks: generate_messages_parallel
\* returns [] for no input; ThreadPoolExecutor(max_workers=0) raises ValueError
PoolEnter ==
    /\ mgpc = "call"
    /\ IF chunk_outcomes = <<>>
       THEN /\ mgpc' = IF generator = "message_generator" THEN "returned" ELSE "raised"
            /\ UNCHANGED messages
       ELSE /\ mgpc' = "collect"
            /\ messages' = InitialMessages(generator, Len(chunk_outcomes))
    /\ UNCHANGED <<repoVars, applyVars, runVars, groupVars, splitVars, patchVars,
                   fileVars, normVars, generator, parallel_level, chunk_outcomes, futures,
                   completed>>

\* a pool thread takes the oldest submitted task
FutureRun(i) ==
    /\ mgpc = "collect"
    /\ futures[i] = "pending"
    /\ \A j \in 1..(i - 1) : futures[j] # "pending"
    /\ Cardinality({j \in 1..Len(futures) : futures[j] = "running"})
          < PoolWorkers(Len(chunk_outcomes), parallel_level)
    /\ futures' = [futures EXCEPT ![i] = "running"]
    /\ UNCHANGED <<repoVars, applyVars, runVars, groupVars, splitVars, patchVars,
                   fileVars, normVars, generator, parallel_level, chunk_outcomes, completed,
                   messages, mgpc>>

\* generate_commit_message returns or raises in its pool thread
FutureDone(i) ==
    /\ futures[i] = "running"
    /\ futures' = [futures EXCEPT ![i] = "done"]
    /\ completed' = Append(completed, i)
    /\ UNCHANGED <<repoVars, applyVars, runVars, groupVars, splitVars, patchVars,
                   fileVars, normVars, generator, parallel_level, chunk_outcomes, messages, mgpc>>

\* for future in as_completed(...): messages[future_to_index[future]] = ...
Collect ==
    /\ mgpc = "collect"
    /\ completed # <<>>
    /\ LET i == Head(completed)
       IN  /\ messages' = [messages EXCEPT ![i] = FutureResult(i, chunk_outcomes[i])]
           /\ futures' = [futures EXCEPT ![i] = "collected"]
    /\ completed' = Tail(completed)
    /\ UNCHANGED <<repoVars, applyVars, runVars, groupVars, splitVars, patchVars,
                   fileVars, normVars, generator, parallel_level, chunk_outcomes, mgpc>>

\* return messages
PoolReturn ==
    /\ mgpc = "collect"
    /\ \A i \in 1..Len(futures) : futures[i] = "collected"
    /\ mgpc' = "returned"
    /\ UNCHANGED <<repoVars, applyVars, runVars, groupVars, splitVars, patchVars,
                   fileVars, normVars, generator, parallel_level, chunk_outcomes, futures,
                   completed, messages>>

NextMsg ==
    \/ PoolEnter
    \/ \E i \in 1..Len(futures) : FutureRun(i)
    \/ \E i \in 1..Len(futures) : FutureDone(i)
    \/ Collect
    \/ PoolReturn

SpecMsg == InitMsg /\ [][NextMsg]_vars

\* C26: parallel message generation returns one message per input chunk, the
\* message at position i being the one generated for chunk i (or the
\* placeholder of its own failure), whatever the completion order and the
\* parallel level.
C26_MessagesInChunkOrder ==
    /\ mgpc # "raised"
    /\ mgpc = "returned" =>
          /\ Len(messages) = Len(chunk_outcomes)
          /\ \A i \in 1..Len(messages) : messages[i] = FutureResult(i, chunk_outcomes[i])

\* ---------------------------------------------------------------- patch preprocessing
\* A patch is a sequence of tokens:
\*   "@@"   the two characters of a hunk-header marker
\*   "-r"   an old range, "-1,2"
\*   "+r"   a new range, "+3,4"
\*   " "    a blank
\*   "\n"   a line feed
\*   "\r"   a carriage return
\*   "x"    any other text
MaxPatchLen == 5

PatchTokens == {"@@", "-r", "+r", " ", "\n", "\r", "x"}

\* what \s matches
ReSpace == {" ", "\n", "\r"}

\* str.replace("\r\n", "\n")
RECURSIVE ReplaceCrLf(_, _)
ReplaceCrLf(t, i) ==
    IF i > Len(t) THEN <<>>
    ELSE IF t[i] = "\r" /\ i < Len(t) /\ t[i + 1] = "\n"
    THEN <<"\n">> \o ReplaceCrLf(t, i + 2)
    ELSE <<t[i]>> \o ReplaceCrLf(t, i + 1)

\* str.replace("\r", "\n")
ReplaceCr(t) == [k \in 1..Len(t) |-> IF t[k] = "\r" THEN "\n" ELSE t[k]]

\* the first position from i on that holds no whitespace
SkipSpace(t, i) ==
    SetMin({j \in i..(Len(t) + 1) : j = Len(t) + 1 \/ t[j] \notin ReSpace})

\* the pattern @@\s*(-\d+,\d+)\s*(\+\d+,\d+)\s*@@, which takes ranges that
\* nothing separates
HeaderMatchEndLoose(t, i) ==
    IF t[i] # "@@" THEN 0
    ELSE LET a == SkipSpace(t, i + 1) IN
         IF a > Len(t) \/ t[a] # "-r" THEN 0
         ELSE LET b == SkipSpace(t, a + 1) IN
              IF b > Len(t) \/ t[b] # "+r" THEN 0
              ELSE LET c == SkipSpace(t, b + 1) IN
                   IF c > Len(t) \/ t[c] # "@@" THEN 0 ELSE c

\* a match of @@\s*(-\d+,\d+)\s+(\+\d+,\d+)\s*@@ that starts at i: the
\* position of its last token, 0 when there is none
HeaderMatchEnd(t, i) ==
    IF t[i] # "@@" THEN 0
    ELSE LET a == SkipSpace(t, i + 1) IN
         IF a > Len(t) \/ t[a] # "-r" THEN 0
         ELSE LET b == SkipSpace(t, a + 1) IN
              IF b = a + 1 \/ b > Len(t) \/ t[b] # "+r" THEN 0
              ELSE LET c == SkipSpace(t, b + 1) IN
                   IF c > Len(t) \/ t[c] # "@@" THEN 0 ELSE c

\* the replacement r"@@ \1 \2 @@"
CanonicalHeader == <<"@@", " ", "-r", " ", "+r", " ", "@@">>

\* re.sub: the matches from left to right, none overlapping another
RECURSIVE ReSubHeaders(_, _)
ReSubHeaders(t, i) ==
    IF i > Len(t) THEN <<>>
    ELSE IF HeaderMatchEnd(t, i) # 0
    THEN CanonicalHeader \o ReSubHeaders(t, HeaderMatchEnd(t, i) + 1)
    ELSE <<t[i]>> \o ReSubHeaders(t, i + 1)

\* the preprocessing of patch_content before it is written for git apply
PreprocessPatch(t) == ReSubHeaders(ReplaceCr(ReplaceCrLf(t, 1)), 1)

InitNorm ==
    /\ IdleRepo
    /\ IdleApply
    /\ IdleRun
    /\ IdleGroup
    /\ IdleSplit
    /\ IdlePatch
    /\ IdleFile
    /\ IdleMsg
    /\ patch_content \in UNION {[1..n -> PatchTokens] : n \in 0..MaxPatchLen}
    /\ processed_patch_content = <<>>
    /\ npc = "call"

\* processed_patch_content = patch_content.replace(...).replace(...); re.sub(...)
Preprocess ==
    /\ npc = "call"
    /\ processed_patch_content' = PreprocessPatch(patch_content)
    /\ npc' = "written"
    /\ UNCHANGED <<repoVars, applyVars, runVars, groupVars, splitVars, patchVars,
                   fileVars, msgVars, patch_content>>

NextNorm == Preprocess

SpecNorm == InitNorm /\ [][NextNorm]_vars

\* a hunk-range header starts at position i of t, however it is spaced
HeaderAt(t, i) == HeaderMatchEndLoose(t, i) # 0

\* the header that starts at i is in the canonical form '@@ -a,b +c,d @@'
CanonicalAt(t, i) ==
    /\ i + 6 <= Len(t)
    /\ [k \in 1..7 |-> t[i + k - 1]] = CanonicalHeader

\* C34: before a patch is written for git apply its text is normalised: every
\* CRLF and lone CR becomes LF, every malformed hunk-range header is
\* re-spaced to the canonical form, also one with no whitespace at all, and
\* normalising a normalised patch changes nothing.
C34_PatchNormalised ==
    npc = "written" =>
        /\ \A k \in 1..Len(processed_patch_content) :
              processed_patch_content[k] # "\r"
        /\ \A k \in 1..Len(processed_patch_content) :
              HeaderAt(processed_patch_content, k) =>
                  CanonicalAt(processed_patch_content, k)
        /\ PreprocessPatch(processed_patch_content) = processed_patch_content

====
